---- MODULE Spec2Model ----
(***************************************************************************)
(* Model of the enrichment statistics engine of the RetroMol-GUI server:   *)
(* the /api/enrich handler run_enrichment (routes/views.py), its exact     *)
(* test _fisher_exact_two_sided, the Benjamini-Hochberg correction and the *)
(* paging of execute_named_query (routes/query.py).                        *)
(*                                                                         *)
(* Floating-point values are modelled in exact arithmetic as reduced       *)
(* fractions <<num, den>> with den > 0.  A log-probability is modelled by  *)
(* the probability it is the logarithm of: lgamma(k + 1) is log(k!), a sum *)
(* of lgamma terms is a product of factorials, and exp() is the identity   *)
(* on that representation.  What rounding does to the float the exact test *)
(* returns is modelled apart, in SpecFloat: the result is the double       *)
(* nearest to the exact value, or one below it, or one above it, and the   *)
(* source fixes which only where every float operation is exact.           *)
(***************************************************************************)
EXTENDS Integers, Sequences, FiniteSets, TLC

VARIABLES
    pc,                       \* position of the handler / of the function under test
    fingerprint,              \* payload.get("fingerprint512"): "missing", "malformed", "valid"
    queries,                  \* the calls of execute_named_query that reached the database, in order
    result,                   \* result of cross_modal_retrieval: rows returned, rows matched
    item_rows,                \* item_ids["rows"]: set of (compound_id, genbank_region_id)
    compound_ids,             \* views.py:230
    genbank_region_ids,       \* views.py:231
    subset_total_targets,     \* views.py:251
    full_rows,                \* ann_full["rows"]
    subset_rows,              \* ann_subset["rows"]
    background_total_targets, \* views.py:280
    fisher_calls,             \* the tables handed to _fisher_exact_two_sided, in order
    enrichment_candidates,    \* views.py:285
    items,                    \* views.py:366
    response,                 \* what the handler answers
    table,                    \* arguments (a, b, c, d) of a direct call of the exact test
    p_value,                  \* what that call returns
    float_results,            \* the floats two direct calls return: table, then rows swapped
    redis,                    \* the key-value store of session_store.py: key -> value or Nil
    clock,                    \* time.time(), in ticks
    client,                   \* the request of a client on the key-value store and its locals
    job,                      \* a submit handler of jobs.py and its locals
    dog,                      \* mark_stale_processing_items of the maintenance loop and its locals
    SESSIONS,                 \* app.config["SESSIONS"]: session id -> session
    rendered,                 \* what execute_named_query rendered or raised
    codec,                    \* argument and results of bits_to_hex / hex_to_bits
    bh_rounding               \* rounding of the float (raw_p * candidate_count) / rank, by rank

\* the variables of the enrichment engine and those of the session services
enrichment_vars ==
    <<pc, fingerprint, queries, result, item_rows, compound_ids, genbank_region_ids,
      subset_total_targets, full_rows, subset_rows, background_total_targets,
      fisher_calls, enrichment_candidates, items, response, table, p_value,
      float_results>>
service_vars == <<redis, clock, client, job, dog, SESSIONS, rendered, codec, bh_rounding>>

vars == <<enrichment_vars, service_vars>>

(***************************************************************************)
(* Bounds of the model.                                                    *)
(***************************************************************************)
MaxCell == 2        \* cells of a directly tested table range over -1..MaxCell
MaxItemRows == 4    \* rows the id-mapping query returns
MaxCount == 1       \* n_compounds of one annotation row ranges over 0..MaxCount
MaxTargets == 3     \* n_compounds of the target_counts row ranges over 0..MaxTargets
MaxCands == 3       \* candidates of a directly corrected list
PDen == 4           \* raw p-values of such a list are k / PDen, k in 0..PDen

(***************************************************************************)
(* Exact arithmetic.                                                       *)
(***************************************************************************)
Min2(x, y) == IF x <= y THEN x ELSE y
Max2(x, y) == IF x >= y THEN x ELSE y

RECURSIVE GCD(_, _)
GCD(x, y) == IF y = 0 THEN x ELSE GCD(y, x % y)

RECURSIVE Factorial(_)
Factorial(k) == IF k <= 0 THEN 1 ELSE k * Factorial(k - 1)

Frac(n, d) == LET g == GCD(n, d) IN IF g = 0 THEN <<0, 1>> ELSE <<n \div g, d \div g>>
RZero == <<0, 1>>
ROne == <<1, 1>>
RAdd(p, q) == Frac(p[1] * q[2] + q[1] * p[2], p[2] * q[2])
RLess(p, q) == p[1] * q[2] < q[1] * p[2]
RLeq(p, q) == p[1] * q[2] <= q[1] * p[2]
RMin(p, q) == IF RLess(p, q) THEN p ELSE q
\* p * k and p / k for an integer k >= 1, cancelling before multiplying
RMulInt(p, k) == LET g == GCD(k, p[2]) IN <<p[1] * (k \div g), p[2] \div g>>
RDivInt(p, k) == LET g == GCD(p[1], k) IN
                 IF p[1] = 0 THEN RZero ELSE <<p[1] \div g, p[2] * (k \div g)>>
\* p * n / d for integers n >= 0, d >= 1
RScale(p, n, d) == Frac(p[1] * n, p[2] * d)

(***************************************************************************)
(* The exact test, views.py:18-74.                                         *)
(***************************************************************************)
\* exp(_log_hypergeom_probability(a, b, c, d)): the lgamma terms in source order
log_hypergeom_probability(a, b, c, d) ==
    LET total == a + b + c + d
        t1 == RMulInt(ROne, Factorial(a + b))
        t2 == RDivInt(t1, Factorial(a))
        t3 == RDivInt(t2, Factorial(b))
        t4 == RMulInt(t3, Factorial(c + d))
        t5 == RDivInt(t4, Factorial(c))
        t6 == RDivInt(t5, Factorial(d))
        t7 == RDivInt(t6, Factorial(total))
        t8 == RMulInt(t7, Factorial(a + c))
    IN  RMulInt(t8, Factorial(b + d))

\* 1e-12 is TolRoot^-2; floor(v * 1e-12) for an integer v >= 0
TolRoot == 1000000
TolFloor(v) == (v \div TolRoot) \div TolRoot

LogProbStrictlyLess(prob, obs) == prob[1] * obs[2] < obs[1] * prob[2]

\* log_prob <= obs_log_prob + 1e-12, i.e. prob <= obs * exp(1e-12), with
\* exp(1e-12) taken as 1 + 1e-12; on cross products this is an integer test
LogProbWithinTolerance(prob, obs) ==
    prob[1] * obs[2] - obs[1] * prob[2] <= TolFloor(obs[1] * prob[2])

min_a_from_row1(a, b, c, d) == Max2(0, (a + c) - (a + b))
min_a(a, b, c, d) == Max2(0, (a + c) - (c + d))
max_a_exclusive(a, b, c, d) == Min2(a + b, a + c) - 1
max_a(a, b, c, d) == Min2(a + b, a + c)

\* the body of the loop over x, views.py:64-72: what x adds to p_sum
FisherTerm(a, b, c, d, x) ==
    LET r1 == a + b
        r2 == c + d
        c1 == a + c
        y == r1 - x
        z == c1 - x
        w == r2 - z
    IN  IF y < 0 \/ z < 0 \/ w < 0 THEN RZero
        ELSE IF LogProbWithinTolerance(log_hypergeom_probability(x, y, z, w),
                                       log_hypergeom_probability(a, b, c, d))
             THEN log_hypergeom_probability(x, y, z, w)
             ELSE RZero

RECURSIVE FisherSum(_, _, _, _, _, _)
FisherSum(a, b, c, d, x, hi) ==
    IF x > hi THEN RZero
    ELSE RAdd(FisherTerm(a, b, c, d, x), FisherSum(a, b, c, d, x + 1, hi))

fisher_exact_first_row_checked(a, b, c, d) ==
    IF Min2(a, b) < 0
    THEN [raised |-> TRUE, p |-> RZero]
    ELSE [raised |-> FALSE,
          p |-> RMin(FisherSum(a, b, c, d, min_a(a, b, c, d), max_a(a, b, c, d)), ROne)]

\* _fisher_exact_two_sided: raises ValueError on a negative count, else the p-value
fisher_exact_two_sided(a, b, c, d) ==
    IF Min2(Min2(a, b), Min2(c, d)) < 0
    THEN [raised |-> TRUE, p |-> RZero]
    ELSE [raised |-> FALSE,
          p |-> RMin(FisherSum(a, b, c, d, min_a(a, b, c, d), max_a(a, b, c, d)), ROne)]

NoTable == <<0, 0, 0, 0>>
NoValue == [raised |-> FALSE, p |-> RZero]

(***************************************************************************)
(* The float the exact test returns, views.py:28-74.  math.lgamma and      *)
(* math.exp round as the platform's library does and every addition rounds *)
(* again, so the source fixes the last bits of the result only where each  *)
(* operation is exact.                                                     *)
(***************************************************************************)
\* the lgamma calls of _log_hypergeom_probability in source order, as
\* <<sign, argument>>
LgammaTerms(a, b, c, d) ==
    << <<1, a + b + 1>>, <<-1, a + 1>>, <<-1, b + 1>>,
       <<1, c + d + 1>>, <<-1, c + 1>>, <<-1, d + 1>>,
       <<-1, a + b + c + d + 1>>, <<1, a + c + 1>>, <<1, b + d + 1>> >>

\* math.lgamma(1) = math.lgamma(2) = 0.0 and x + 0.0 = x - 0.0 = x: the terms
\* that change the running sum
IsInexactTerm(t) == t[2] > 2
InexactTerms(a, b, c, d) == SelectSeq(LgammaTerms(a, b, c, d), IsInexactTerm)

\* the running sum after the first k of these terms: <<"zero">> for 0.0,
\* <<"lgamma", sign, n>> for exactly +lgamma(n) or -lgamma(n), and <<"rounded">>
\* once two different non-zero doubles were added (x - x is 0.0 exactly)
FloatAddNoCancel(acc, t) ==
    IF acc[1] = "zero" THEN <<"lgamma", t[1], t[2]>> ELSE <<"rounded">>

FloatAdd(acc, t) ==
    CASE acc[1] = "zero" -> <<"lgamma", t[1], t[2]>>
      [] acc[1] = "lgamma" ->
           IF acc[2] = -t[1] /\ acc[3] = t[2] THEN <<"zero">> ELSE <<"rounded">>
      [] OTHER -> <<"rounded">>

RECURSIVE FloatSum(_, _)
FloatSum(terms, k) ==
    IF k = 0 THEN <<"zero">> ELSE FloatAdd(FloatSum(terms, k - 1), terms[k])

\* _log_hypergeom_probability(a, b, c, d) is 0.0 on every platform
LogIsExactZero(a, b, c, d) ==
    LET terms == InexactTerms(a, b, c, d)
    IN  FloatSum(terms, Len(terms))[1] = "zero"

\* the table (x, y, z, w) of the loop at x, views.py:64-67
TermTable(t, x) ==
    <<x, (t[1] + t[2]) - x, (t[1] + t[3]) - x,
      (t[3] + t[4]) - ((t[1] + t[3]) - x)>>

\* every float operation of one call in order: the terms of obs_log_prob, then
\* those of log_prob for each x; two calls that agree on it return the same float
FloatOperations(t) ==
    LET lo == min_a(t[1], t[2], t[3], t[4])
        hi == max_a(t[1], t[2], t[3], t[4])
    IN  <<InexactTerms(t[1], t[2], t[3], t[4]),
          [k \in 1..(hi - lo + 1) |->
              LET u == TermTable(t, lo + k - 1)
              IN  InexactTerms(u[1], u[2], u[3], u[4])]>>

\* where the returned float may lie relative to the double nearest the exact
\* p-value: a single term with log 0.0 gives exp(0.0) = 1.0; min(p_sum, 1.0)
\* cuts off what lies above 1.0
Roundings(t) ==
    IF /\ min_a(t[1], t[2], t[3], t[4]) = max_a(t[1], t[2], t[3], t[4])
       /\ LogIsExactZero(t[1], t[2], t[3], t[4])
    THEN {"nearest"}
    ELSE IF fisher_exact_two_sided(t[1], t[2], t[3], t[4]).p = ROne
         THEN {"below", "nearest"}
         ELSE {"below", "nearest", "above"}

FloatResult(t, rounding) ==
    [table |-> t,
     p |-> fisher_exact_two_sided(t[1], t[2], t[3], t[4]).p,
     rounding |-> rounding]

\* (a, b, c, d) with its two rows exchanged
RowsSwapped(t) == <<t[3], t[4], t[1], t[2]>>

(***************************************************************************)
(* Multiple-testing correction and ranking, views.py:339-381.              *)
(***************************************************************************)
\* tuple comparison of Python on sort keys that are tuples of numbers
RECURSIVE KeyLess(_, _)
KeyLess(k1, k2) ==
    IF k1 = <<>> \/ k2 = <<>> THEN k1 = <<>> /\ k2 # <<>>
    ELSE IF RLess(Head(k1), Head(k2)) THEN TRUE
    ELSE IF RLess(Head(k2), Head(k1)) THEN FALSE
    ELSE KeyLess(Tail(k1), Tail(k2))

\* sorted(range(n), key=...): Python's sort is stable, so an index goes after
\* every earlier index whose key is not larger
InsertSorted(keys, s, i) ==
    LET later == {j \in 1..Len(s) : KeyLess(keys[i], keys[s[j]])}
        pos == IF later = {} THEN Len(s) + 1
               ELSE CHOOSE j \in later : \A k \in later : j <= k
    IN  SubSeq(s, 1, pos - 1) \o <<i>> \o SubSeq(s, pos, Len(s))

RECURSIVE StableOrder(_, _)
StableOrder(keys, n) ==
    IF n = 0 THEN <<>> ELSE InsertSorted(keys, StableOrder(keys, n - 1), n)

sorted_indices_unsorted(cands) == [i \in 1..Len(cands) |-> i]

\* sorted(range(candidate_count), key=p_value), views.py:344-347
sorted_indices(cands) ==
    StableOrder([i \in 1..Len(cands) |-> <<cands[i].p_value>>], Len(cands))

\* adjusted = (raw_p * candidate_count) / rank, views.py:356
RawAdjustmentNextRank(raw_p, candidate_count, rank) ==
    RScale(raw_p, candidate_count, rank + 1)
RawAdjustment(raw_p, candidate_count, rank) == RScale(raw_p, candidate_count, rank)

\* views.py:357-358
RunningMinDropped(cumulative_min, adjusted) == adjusted
RunningMin(cumulative_min, adjusted) ==
    IF RLess(adjusted, cumulative_min) THEN adjusted ELSE cumulative_min

\* one pass of the loop views.py:352-359 at 1-based rank, and the passes below it
RECURSIVE BHScan(_, _, _, _, _)
BHScan(cands, order, rank, cumulative_min, adjusted_values) ==
    IF rank = 0 THEN adjusted_values
    ELSE LET candidate_idx == order[rank]
             raw_p == cands[candidate_idx].p_value
             adjusted == RawAdjustment(raw_p, Len(cands), rank)
             cmin == RunningMin(cumulative_min, adjusted)
         IN  BHScan(cands, order, rank - 1, cmin,
                    [adjusted_values EXCEPT
                        ![candidate_idx] = IF RLess(cmin, ROne) THEN cmin ELSE ROne])

BenjaminiHochbergFromZero(cands) ==
    IF Len(cands) = 0 THEN <<>>
    ELSE BHScan(cands, sorted_indices(cands), Len(cands), RZero,
                [i \in 1..Len(cands) |-> ROne])

\* adjusted_values, views.py:341-359 (the empty list when there is no candidate)
BenjaminiHochberg(cands) ==
    IF Len(cands) = 0 THEN <<>>
    ELSE BHScan(cands, sorted_indices(cands), Len(cands), ROne,
                [i \in 1..Len(cands) |-> ROne])

\* views.py:360-361: every candidate gets its adjusted_p_value
Corrected(cands) ==
    [i \in 1..Len(cands) |->
        [key |-> cands[i].key,
         subset_count |-> cands[i].subset_count,
         background_count |-> cands[i].background_count,
         p_value |-> cands[i].p_value,
         adjusted_p_value |-> BenjaminiHochberg(cands)[i]]]

RankItemsUnsorted(cands) ==
    [k \in 1..Len(cands) |-> [key |-> cands[k].key, p_value |-> cands[k].p_value,
                              adjusted_p_value |-> cands[k].adjusted_p_value]]

\* items, views.py:366-381, from the corrected candidates
RankItems(cands) ==
    LET entry(i) == [key |-> cands[i].key, p_value |-> cands[i].p_value,
                     adjusted_p_value |-> cands[i].adjusted_p_value]
        order == StableOrder([i \in 1..Len(cands) |->
                                 <<cands[i].adjusted_p_value, cands[i].p_value>>],
                             Len(cands))
    IN  [k \in 1..Len(cands) |-> entry(order[k])]

(***************************************************************************)
(* Paging of execute_named_query, query.py:18-21, 287-292, 309.            *)
(***************************************************************************)
DEFAULT_LIMIT == 500
max_limit_in_group == 1000
HighLimit == 1000000000

\* the registry of query names, query_registry.py:28-210
QUERIES == {"binned_coverage", "fingerprint_source_counts", "search_compound_by_name",
            "cross_modal_retrieval", "compound_info_by_id", "annotation_counts_full",
            "annotation_counts_subset", "retrieve_items_by_fingerprint_ids",
            "target_counts"}

\* paging is <<>> for {} and <<limit>> for {"limit": limit}
PagingLimit(paging) == IF paging = <<>> THEN DEFAULT_LIMIT ELSE paging[1]

\* number of rows "... LIMIT %(limit)s" returns when `matched` rows match
RowsReturned(matched, paging) == Min2(matched, PagingLimit(paging))

QueryCall(name, paging) == [name |-> name, limit |-> PagingLimit(paging)]

(***************************************************************************)
(* Target resolution, views.py:220-251.                                    *)
(***************************************************************************)
NULL == -1
Ids == {0, 1, 2}
\* truth value Python gives None or an int
Truthy(v) == v # NULL /\ v # 0

ResolveCompounds(rows) ==
    {r.compound_id : r \in {q \in rows : Truthy(q.compound_id)
                                         /\ ~Truthy(q.genbank_region_id)}}
ResolveGenbankRegions(rows) ==
    {r.genbank_region_id : r \in {q \in rows :
        /\ ~(Truthy(q.compound_id) /\ ~Truthy(q.genbank_region_id))
        /\ Truthy(q.genbank_region_id) /\ ~Truthy(q.compound_id)}}

NoTargetsMissing(cids, gids) == FALSE

\* views.py:240: `if not compound_ids and not genbank_region_ids`
NoTargets(cids, gids) == cids = {} /\ gids = {}

(***************************************************************************)
(* Contingency aggregation, views.py:282-337.                              *)
(***************************************************************************)
\* full_lookup.get(key): index of the last full row with that key, 0 for None
full_lookup(rows, key) ==
    LET hits == {i \in 1..Len(rows) : rows[i].key = key}
    IN  IF hits = {} THEN 0 ELSE CHOOSE i \in hits : \A j \in hits : j <= i

RowWith(row) == row.n_compounds + row.n_genbank_regions

ContingencyTableWholeBackground(subset_with, background_with, st, bt) ==
    LET a == subset_with
        b == st - a
        c == background_with - a
        d == bt - c
    IN  [a |-> a, b |-> b, c |-> c, d |-> d, background_with |-> background_with]

ContingencyTable(subset_with, background_with, st, bt) ==
    LET a == subset_with
        b == st - a
        background_only_total == bt - st
        c == background_with - a
        d == background_only_total - c
    IN  [a |-> a, b |-> b, c |-> c, d |-> d, background_with |-> background_with]

RowSurvivesNoPositiveCheck(row, rows_full, st, bt) ==
    LET i == full_lookup(rows_full, row.key)
    IN  /\ i # 0
        /\ ~(RowWith(rows_full[i]) <= 0 \/ RowWith(rows_full[i]) < RowWith(row))
        /\ LET t == ContingencyTable(RowWith(row), RowWith(rows_full[i]), st, bt)
           IN  ~(Min2(Min2(t.a, t.b), Min2(t.c, t.d)) < 0)

RowSurvivesNoCellCheck(row, rows_full, st, bt) ==
    LET i == full_lookup(rows_full, row.key)
    IN  /\ i # 0
        /\ RowWith(row) > 0
        /\ ~(RowWith(rows_full[i]) <= 0 \/ RowWith(rows_full[i]) < RowWith(row))

\* the row passes every `continue` of the loop body, views.py:299-325
RowSurvives(row, rows_full, st, bt) ==
    LET i == full_lookup(rows_full, row.key)
    IN  /\ i # 0
        /\ RowWith(row) > 0
        /\ ~(RowWith(rows_full[i]) <= 0 \/ RowWith(rows_full[i]) < RowWith(row))
        /\ LET t == ContingencyTable(RowWith(row), RowWith(rows_full[i]), st, bt)
           IN  ~(Min2(Min2(t.a, t.b), Min2(t.c, t.d)) < 0)

\* the guard of the whole loop, views.py:287-292
AggregationGuard(rows_subset, rows_full, st, bt) ==
    rows_subset # <<>> /\ rows_full # <<>> /\ st > 0 /\ bt > st

\* indices of the subset rows that reach _fisher_exact_two_sided, in order
RECURSIVE SurvivingRows(_, _, _, _, _)
SurvivingRows(rows_subset, rows_full, st, bt, k) ==
    IF k > Len(rows_subset) THEN <<>>
    ELSE (IF RowSurvives(rows_subset[k], rows_full, st, bt) THEN <<k>> ELSE <<>>)
         \o SurvivingRows(rows_subset, rows_full, st, bt, k + 1)

TestedRows(rows_subset, rows_full, st, bt) ==
    IF AggregationGuard(rows_subset, rows_full, st, bt)
    THEN SurvivingRows(rows_subset, rows_full, st, bt, 1)
    ELSE <<>>

TableOfRow(row, rows_full, st, bt) ==
    ContingencyTable(RowWith(row), RowWith(rows_full[full_lookup(rows_full, row.key)]),
                     st, bt)

FisherCalls(rows_subset, rows_full, st, bt) ==
    LET idx == TestedRows(rows_subset, rows_full, st, bt)
    IN  [k \in 1..Len(idx) |-> TableOfRow(rows_subset[idx[k]], rows_full, st, bt)]

Candidates(rows_subset, rows_full, st, bt) ==
    LET idx == TestedRows(rows_subset, rows_full, st, bt)
    IN  [k \in 1..Len(idx) |->
            LET t == TableOfRow(rows_subset[idx[k]], rows_full, st, bt)
            IN  [key |-> rows_subset[idx[k]].key,
                 subset_count |-> t.a,
                 background_count |-> t.background_with,
                 p_value |-> fisher_exact_two_sided(t.a, t.b, t.c, t.d).p]]

(***************************************************************************)
(* What the external data source may answer.                               *)
(***************************************************************************)
\* (scheme, key, value) of an annotation, as one opaque identity
AnnKeys == {"k1", "k2"}
GenbankCounts == {0, 1}

\* rows matching the similarity search, before LIMIT
HitCounts == {0, 1, DEFAULT_LIMIT, max_limit_in_group - 1, max_limit_in_group,
              max_limit_in_group + 1}

ItemRows == [compound_id : Ids \cup {NULL}, genbank_region_id : Ids \cup {NULL}]
\* SELECT DISTINCT: a set of rows
ItemRowSets == {rows \in SUBSET ItemRows : Cardinality(rows) <= MaxItemRows}

AnnRows(k) == [key : {k}, n_compounds : 0..MaxCount, n_genbank_regions : GenbankCounts]
AllAnnRows == UNION {AnnRows(k) : k \in AnnKeys}
\* GROUP BY scheme, key, value: no two rows of one answer share their identity
AnnRowSeqs == {<<>>} \cup {<<r>> : r \in AllAnnRows}
              \cup {rows \in [1..2 -> AllAnnRows] : rows[1].key # rows[2].key}
\* the dictionary full_lookup does not depend on the order of such rows
FullRowSeqs == {rows \in AnnRowSeqs : Len(rows) = 2 => rows[1].key = "k1"}

TargetCountRows == [n_compounds : 0..MaxTargets, n_genbank_regions : GenbankCounts]

NoResult == [rows |-> 0, matched |-> 0]
NoResponse == [code |-> 0, error |-> "none"]
\* an exception nothing catches: the request fails
ValueErrorRaised == [code |-> 500, error |-> "ValueError"]
QueryErrorRaised == [code |-> 500, error |-> "RuntimeError or TimeoutError"]

(***************************************************************************)
(* The session services at rest: session_store.py (key-value store),       *)
(* jobs.py, maintenance.py, session.py and app.py (in-memory sessions),    *)
(* execute_named_query's rendering and the fingerprint codec.              *)
(***************************************************************************)
SessionIds == {"s1"}
ItemIds == {"i1"}

\* redis_client.get(key) of a key that is not stored: None
Nil == <<>>

\* _session_key and _item_key, session_store.py:98-118
session_key(session_id) == <<"session:", session_id>>
item_key(session_id, item_id) == <<"session_item:", session_id, item_id>>
Keys == {session_key(s) : s \in SessionIds}
            \cup {item_key(s, i) : s \in SessionIds, i \in ItemIds}

EmptyRedis == [k \in Keys |-> Nil]
IdleProcess == [pc |-> "idle"]

ServicesAtRest ==
    /\ redis = EmptyRedis
    /\ client = IdleProcess
    /\ job = IdleProcess
    /\ dog = IdleProcess
    /\ SESSIONS = <<>>
    /\ rendered = <<>>
    /\ codec = <<>>
    /\ bh_rounding = <<>>

ServicesIdle == ServicesAtRest /\ clock = 0

(***************************************************************************)
(* The handler run_enrichment, views.py:183-391.  One action per call of   *)
(* execute_named_query together with the code that follows it up to the    *)
(* next call.  A local that is not read again is cleared when the next     *)
(* query is issued.                                                        *)
(***************************************************************************)
Init ==
    /\ pc = "start"
    /\ fingerprint \in {"missing", "malformed", "valid"}
    /\ queries = <<>>
    /\ result = NoResult
    /\ item_rows = {}
    /\ compound_ids = {}
    /\ genbank_region_ids = {}
    /\ subset_total_targets = 0
    /\ full_rows = <<>>
    /\ subset_rows = <<>>
    /\ background_total_targets = 0
    /\ fisher_calls = <<>>
    /\ enrichment_candidates = <<>>
    /\ items = <<>>
    /\ response = NoResponse
    /\ table = NoTable
    /\ p_value = NoValue
    /\ float_results = <<>>
    /\ ServicesIdle

\* views.py:196-197
MissingFingerprint ==
    /\ pc = "start"
    /\ fingerprint = "missing"
    /\ pc' = "done"
    /\ response' = [code |-> 400, error |-> "Missing fingerprint512"]
    /\ UNCHANGED <<service_vars, float_results, fingerprint, queries, result, item_rows, compound_ids,
                   genbank_region_ids, subset_total_targets, full_rows, subset_rows,
                   background_total_targets, fisher_calls, enrichment_candidates,
                   items, table, p_value>>

\* views.py:201-209 with query.py:279-285: hex_to_bits raises, the query is not run
MalformedFingerprint ==
    /\ pc = "start"
    /\ fingerprint = "malformed"
    /\ pc' = "done"
    /\ response' = ValueErrorRaised
    /\ UNCHANGED <<service_vars, float_results, fingerprint, queries, result, item_rows, compound_ids,
                   genbank_region_ids, subset_total_targets, full_rows, subset_rows,
                   background_total_targets, fisher_calls, enrichment_candidates,
                   items, table, p_value>>

\* views.py:201-218: the similarity search and the overflow check
SimilaritySearch ==
    /\ pc = "start"
    /\ fingerprint = "valid"
    /\ "cross_modal_retrieval" \in QUERIES
    /\ \E matched \in HitCounts :
          LET num_rows == RowsReturned(matched, <<>>)
          IN  /\ queries' = Append(queries, QueryCall("cross_modal_retrieval", <<>>))
              /\ result' = [rows |-> num_rows, matched |-> matched]
              /\ IF num_rows >= max_limit_in_group
                 THEN /\ pc' = "done"
                      /\ response' = [code |-> 400, error |-> "Too many items in in-group"]
                 ELSE /\ pc' = "id_mapping"
                      /\ response' = response
    /\ UNCHANGED <<service_vars, float_results, fingerprint, item_rows, compound_ids, genbank_region_ids,
                   subset_total_targets, full_rows, subset_rows,
                   background_total_targets, fisher_calls, enrichment_candidates,
                   items, table, p_value>>

\* views.py:220-251: the id-mapping query, target resolution, the empty answer
RetrieveItems ==
    /\ pc = "id_mapping"
    /\ "retrieve_items_by_fingerprint_ids" \in QUERIES
    /\ \E rows \in ItemRowSets :
          \* one row per readout id, and no more readout ids than search rows
          /\ Cardinality(rows) <= result.rows
          /\ queries' = Append(queries, QueryCall("retrieve_items_by_fingerprint_ids",
                                                  <<HighLimit>>))
          /\ item_rows' = rows
          /\ compound_ids' = ResolveCompounds(rows)
          /\ genbank_region_ids' = ResolveGenbankRegions(rows)
          /\ IF NoTargets(ResolveCompounds(rows), ResolveGenbankRegions(rows))
             THEN /\ pc' = "done"
                  /\ response' = [code |-> 200, error |-> "none"]
                  /\ subset_total_targets' = subset_total_targets
             ELSE /\ pc' = "ann_full"
                  /\ response' = response
                  /\ subset_total_targets' = Cardinality(ResolveCompounds(rows))
                                             + Cardinality(ResolveGenbankRegions(rows))
    /\ result' = NoResult
    /\ UNCHANGED <<service_vars, float_results, fingerprint, full_rows, subset_rows, background_total_targets,
                   fisher_calls, enrichment_candidates, items, table, p_value>>

\* views.py:253-259
AnnotationCountsFull ==
    /\ pc = "ann_full"
    /\ "annotation_counts_full" \in QUERIES
    /\ \E rows \in FullRowSeqs :
          /\ queries' = Append(queries, QueryCall("annotation_counts_full", <<HighLimit>>))
          /\ full_rows' = rows
    /\ pc' = "ann_subset"
    /\ item_rows' = {}
    /\ UNCHANGED <<service_vars, float_results, fingerprint, result, compound_ids, genbank_region_ids,
                   subset_total_targets, subset_rows, background_total_targets,
                   fisher_calls, enrichment_candidates, items, response, table, p_value>>

AnnotationCountsSubsetEarly ==
    /\ pc = "id_mapping"
    /\ "annotation_counts_subset" \in QUERIES
    /\ \E rows \in AnnRowSeqs :
          /\ queries' = Append(queries, QueryCall("annotation_counts_subset", <<HighLimit>>))
          /\ subset_rows' = rows
    /\ pc' = "target_counts"
    /\ compound_ids' = {}
    /\ genbank_region_ids' = {}
    /\ UNCHANGED <<service_vars, float_results, fingerprint, result, item_rows, subset_total_targets,
                   full_rows, background_total_targets, fisher_calls,
                   enrichment_candidates, items, response, table, p_value>>

\* views.py:261-270
AnnotationCountsSubset ==
    /\ pc = "ann_subset"
    /\ "annotation_counts_subset" \in QUERIES
    /\ \E rows \in AnnRowSeqs :
          /\ queries' = Append(queries, QueryCall("annotation_counts_subset", <<HighLimit>>))
          /\ subset_rows' = rows
    /\ pc' = "target_counts"
    /\ compound_ids' = {}
    /\ genbank_region_ids' = {}
    /\ UNCHANGED <<service_vars, float_results, fingerprint, result, item_rows, subset_total_targets, full_rows,
                   background_total_targets, fisher_calls, enrichment_candidates,
                   items, response, table, p_value>>

\* views.py:272-391: the target totals, aggregation, correction, ranking, the answer
TargetCounts ==
    /\ pc = "target_counts"
    /\ "target_counts" \in QUERIES
    /\ \E bg_row \in TargetCountRows :
          LET bt == bg_row.n_compounds + bg_row.n_genbank_regions
              calls == FisherCalls(subset_rows, full_rows, subset_total_targets, bt)
              cands == Candidates(subset_rows, full_rows, subset_total_targets, bt)
              raised == \E k \in 1..Len(calls) :
                           fisher_exact_two_sided(calls[k].a, calls[k].b,
                                                  calls[k].c, calls[k].d).raised
          IN  /\ queries' = Append(queries, QueryCall("target_counts", <<>>))
              /\ background_total_targets' = bt
              /\ fisher_calls' = calls
              /\ IF raised
                 THEN /\ response' = ValueErrorRaised
                      /\ enrichment_candidates' = enrichment_candidates
                      /\ items' = items
                 ELSE /\ response' = [code |-> 200, error |-> "none"]
                      /\ enrichment_candidates' = Corrected(cands)
                      /\ items' = RankItems(Corrected(cands))
    /\ pc' = "done"
    /\ UNCHANGED <<service_vars, float_results, fingerprint, result, item_rows, compound_ids, genbank_region_ids,
                   subset_total_targets, full_rows, subset_rows, table, p_value>>

\* the query each position of the handler issues next, with its paging
NextQuery ==
    CASE pc = "start" -> QueryCall("cross_modal_retrieval", <<>>)
      [] pc = "id_mapping" -> QueryCall("retrieve_items_by_fingerprint_ids", <<HighLimit>>)
      [] pc = "ann_full" -> QueryCall("annotation_counts_full", <<HighLimit>>)
      [] pc = "ann_subset" -> QueryCall("annotation_counts_subset", <<HighLimit>>)
      [] OTHER -> QueryCall("target_counts", <<>>)

QueryFailsRetried ==
    /\ pc \in {"start", "id_mapping", "ann_full", "ann_subset", "target_counts"}
    /\ pc = "start" => fingerprint = "valid"
    /\ queries' = Append(Append(queries, NextQuery), NextQuery)
    /\ pc' = "done"
    /\ response' = QueryErrorRaised
    /\ UNCHANGED <<service_vars, float_results, fingerprint, result, item_rows, compound_ids, genbank_region_ids,
                   subset_total_targets, full_rows, subset_rows,
                   background_total_targets, fisher_calls, enrichment_candidates,
                   items, table, p_value>>

\* query.py:312-330: the database fails or times out; run_enrichment catches nothing
QueryFails ==
    /\ pc \in {"start", "id_mapping", "ann_full", "ann_subset", "target_counts"}
    /\ pc = "start" => fingerprint = "valid"
    /\ queries' = Append(queries, NextQuery)
    /\ pc' = "done"
    /\ response' = QueryErrorRaised
    /\ UNCHANGED <<service_vars, float_results, fingerprint, result, item_rows, compound_ids, genbank_region_ids,
                   subset_total_targets, full_rows, subset_rows,
                   background_total_targets, fisher_calls, enrichment_candidates,
                   items, table, p_value>>

Next ==
    \/ MissingFingerprint
    \/ MalformedFingerprint
    \/ SimilaritySearch
    \/ RetrieveItems
    \/ AnnotationCountsFull
    \/ AnnotationCountsSubset
    \/ TargetCounts
    \/ QueryFails

Spec == Init /\ [][Next]_vars

(***************************************************************************)
(* The exact test called directly on every table with cells in             *)
(* -1..MaxCell.                                                            *)
(***************************************************************************)
EngineIdle ==
    /\ fingerprint = "valid"
    /\ queries = <<>>
    /\ result = NoResult
    /\ item_rows = {}
    /\ compound_ids = {}
    /\ genbank_region_ids = {}
    /\ subset_total_targets = 0
    /\ full_rows = <<>>
    /\ subset_rows = <<>>
    /\ background_total_targets = 0
    /\ fisher_calls = <<>>
    /\ response = NoResponse
    /\ float_results = <<>>

Idle == EngineIdle /\ ServicesIdle

InitFisher ==
    /\ Idle
    /\ pc = "fisher"
    /\ table \in [1..4 -> -1..MaxCell]
    /\ p_value = NoValue
    /\ enrichment_candidates = <<>>
    /\ items = <<>>

FisherCall ==
    /\ pc = "fisher"
    /\ p_value' = fisher_exact_two_sided(table[1], table[2], table[3], table[4])
    /\ pc' = "fisher_returned"
    /\ UNCHANGED <<service_vars, float_results, fingerprint, queries, result, item_rows, compound_ids,
                   genbank_region_ids, subset_total_targets, full_rows, subset_rows,
                   background_total_targets, fisher_calls, enrichment_candidates,
                   items, response, table>>

NextFisher == FisherCall

SpecFisher == InitFisher /\ [][NextFisher]_vars

(***************************************************************************)
(* The correction and the ranking, views.py:339-381, run on every list of  *)
(* at most MaxCands candidates with raw p-values k / PDen.                 *)
(***************************************************************************)
CandKeys == <<"k1", "k2", "k3", "k4", "k5", "k6">>
RawPValues == {Frac(k, PDen) : k \in 0..PDen}
RawCandidates(m) ==
    {[i \in 1..m |-> [key |-> CandKeys[i], subset_count |-> 1, background_count |-> 1,
                      p_value |-> ps[i]]] : ps \in [1..m -> RawPValues]}

\* the raw p-values 0.01, 0.02, 0.03, 0.04, 0.50 on five candidates
ExampleCandidates ==
    LET ps == <<Frac(1, 100), Frac(2, 100), Frac(3, 100), Frac(4, 100), Frac(50, 100)>>
    IN  [i \in 1..5 |-> [key |-> CandKeys[i], subset_count |-> 1,
                         background_count |-> 1, p_value |-> ps[i]]]

InitBH ==
    /\ Idle
    /\ pc = "correct"
    /\ enrichment_candidates \in UNION {RawCandidates(m) : m \in 0..MaxCands}
                                 \cup {ExampleCandidates}
    /\ items = <<>>
    /\ table = NoTable
    /\ p_value = NoValue

Correct ==
    /\ pc = "correct"
    /\ enrichment_candidates' = Corrected(enrichment_candidates)
    /\ items' = RankItems(Corrected(enrichment_candidates))
    /\ pc' = "ranked"
    /\ UNCHANGED <<service_vars, float_results, fingerprint, queries, result, item_rows, compound_ids,
                   genbank_region_ids, subset_total_targets, full_rows, subset_rows,
                   background_total_targets, fisher_calls, response, table, p_value>>

NextBH == Correct

SpecBH == InitBH /\ [][NextBH]_vars

(***************************************************************************)
(* Two direct calls of the exact test, on a table of counts in 0..MaxCell  *)
(* and on the same table with its rows exchanged, with the floats they     *)
(* return.                                                                 *)
(***************************************************************************)
InitFloat ==
    /\ Idle
    /\ pc = "float"
    /\ table \in [1..4 -> 0..MaxCell]
    /\ p_value = NoValue
    /\ enrichment_candidates = <<>>
    /\ items = <<>>

FloatCall ==
    /\ pc = "float"
    /\ \E r \in Roundings(table) : float_results' = <<FloatResult(table, r)>>
    /\ p_value' = fisher_exact_two_sided(table[1], table[2], table[3], table[4])
    /\ pc' = "float_returned"
    /\ UNCHANGED <<service_vars, fingerprint, queries, result, item_rows, compound_ids,
                   genbank_region_ids, subset_total_targets, full_rows, subset_rows,
                   background_total_targets, fisher_calls, enrichment_candidates,
                   items, response, table>>

FloatCallRowsSwapped ==
    /\ pc = "float_returned"
    /\ \E r \in Roundings(RowsSwapped(table)) :
          \* the function is deterministic: the same operations, the same float
          /\ FloatOperations(RowsSwapped(table)) = FloatOperations(table)
                => r = float_results[1].rounding
          /\ float_results' = Append(float_results, FloatResult(RowsSwapped(table), r))
    /\ pc' = "float_swapped"
    /\ UNCHANGED <<service_vars, fingerprint, queries, result, item_rows, compound_ids,
                   genbank_region_ids, subset_total_targets, full_rows, subset_rows,
                   background_total_targets, fisher_calls, enrichment_candidates,
                   items, response, table, p_value>>

NextFloat == FloatCall \/ FloatCallRowsSwapped

SpecFloat == InitFloat /\ [][NextFloat]_vars

(***************************************************************************)
(* Properties of the exact test (SpecFisher).                              *)
(***************************************************************************)
RECURSIVE Binomial(_, _)
Binomial(n, k) ==
    IF k < 0 \/ k > n THEN 0
    ELSE IF k = 0 \/ k = n THEN 1
    ELSE Binomial(n - 1, k - 1) + Binomial(n - 1, k)

\* C(row1, x) * C(row2, col1 - x): the numerator of the point probability P(x)
HypergeomWeight(t, x) == Binomial(t[1] + t[2], x) * Binomial(t[3] + t[4], t[1] + t[3] - x)

RECURSIVE SumWeights(_, _, _)
SumWeights(t, x, hi) ==
    IF x > hi THEN 0
    ELSE (IF HypergeomWeight(t, x) <= HypergeomWeight(t, t[1])
          THEN HypergeomWeight(t, x) ELSE 0)
         + SumWeights(t, x + 1, hi)

\* sum of P(x) over x in [max(0, col1 - row2), min(row1, col1)] with P(x) <= P(a), capped
HypergeomTail(t) ==
    RMin(Frac(SumWeights(t, Max2(0, t[1] + t[3] - (t[3] + t[4])),
                         Min2(t[1] + t[2], t[1] + t[3])),
              Binomial(t[1] + t[2] + t[3] + t[4], t[1] + t[3])),
         ROne)

NonNegative(t) == \A i \in 1..4 : t[i] >= 0
Returned == pc = "fisher_returned" /\ NonNegative(table)

\* C1: for every table of non-negative integers the exact test returns the sum of the
\* hypergeometric point probabilities C(row1,x)*C(row2,col1-x)/C(n,col1) of the tables
\* x in the valid range that are no more probable than the observed one, capped at 1;
\* the table (2,0,0,2) yields 1/3.
C1_FisherIsHypergeometricTail ==
    Returned =>
        /\ ~p_value.raised
        /\ p_value.p = HypergeomTail(table)
        /\ table = <<2, 0, 0, 2>> => p_value.p = <<1, 3>>

C1_Witness == Returned /\ table = <<2, 0, 0, 2>> /\ p_value.p = <<1, 3>>

RECURSIVE MinOverRanks(_, _, _)
MinOverRanks(cands, order, k) ==
    LET m == Len(cands)
        here == RScale(cands[order[k]].p_value, m, k)
    IN  IF k = m THEN here ELSE RMin(here, MinOverRanks(cands, order, k + 1))

\* C3: the adjusted p-value of the candidate at rank k (ascending raw p-value) is
\* min(1, min over the ranks i with k <= i <= m of p_i * m / i).
C3_BHStepUp ==
    pc = "ranked" =>
        LET order == sorted_indices(enrichment_candidates)
        IN  \A k \in 1..Len(enrichment_candidates) :
               enrichment_candidates[order[k]].adjusted_p_value
                  = RMin(ROne, MinOverRanks(enrichment_candidates, order, k))

\* a candidate whose adjusted value comes from a later rank, not from its own
C3_Witness ==
    /\ pc = "ranked"
    /\ Len(enrichment_candidates) >= 2
    /\ LET order == sorted_indices(enrichment_candidates)
       IN  \E k \in 1..Len(enrichment_candidates) :
              RLess(enrichment_candidates[order[k]].adjusted_p_value,
                    RMin(ROne, RScale(enrichment_candidates[order[k]].p_value,
                                      Len(enrichment_candidates), k)))

\* C4: for raw p-values in [0, 1] the adjusted p-values are non-decreasing in
\* ascending raw-p order, and every adjusted value is at most 1.
C4_BHMonotone ==
    pc = "ranked" =>
        \A i, j \in 1..Len(enrichment_candidates) :
           /\ RLeq(enrichment_candidates[i].adjusted_p_value, ROne)
           /\ RLeq(enrichment_candidates[i].p_value, enrichment_candidates[j].p_value)
                 => RLeq(enrichment_candidates[i].adjusted_p_value,
                         enrichment_candidates[j].adjusted_p_value)

\* three candidates with increasing adjusted values, the last one clamped at 1
C4_Witness ==
    /\ pc = "ranked"
    /\ Len(enrichment_candidates) = 3
    /\ \E i, j, k \in 1..3 :
          /\ RLess(enrichment_candidates[i].adjusted_p_value,
                   enrichment_candidates[j].adjusted_p_value)
          /\ RLess(enrichment_candidates[j].adjusted_p_value,
                   enrichment_candidates[k].adjusted_p_value)
          /\ enrichment_candidates[k].adjusted_p_value = ROne

(***************************************************************************)
(* Properties of the handler (Spec).                                       *)
(***************************************************************************)
OverflowAnswer == [code |-> 400, error |-> "Too many items in in-group"]

C6_SearchLimitIsCap ==
    /\ \A i \in 1..Len(queries) :
          queries[i].name = "cross_modal_retrieval" => queries[i].limit = max_limit_in_group
    /\ result.matched >= max_limit_in_group => result.rows >= max_limit_in_group

\* the request ran to its end with every query answered
Answered == pc = "done" /\ Len(queries) = 5 /\ response # QueryErrorRaised

\* one subset annotation with subset_with = 2 whose full row has background_with = 2
OneAnnotationTwoOfTwo ==
    /\ Len(subset_rows) = 1
    /\ RowWith(subset_rows[1]) = 2
    /\ \E i \in 1..Len(full_rows) :
          full_rows[i].key = subset_rows[1].key /\ RowWith(full_rows[i]) = 2

OnlyItem(p) ==
    /\ response.code = 200
    /\ Len(items) = 1
    /\ items[1].key = subset_rows[1].key
    /\ items[1].p_value = p
    /\ items[1].adjusted_p_value = items[1].p_value

\* C7 as stated: subset_total = 4, background_total = 4, subset_with = 2 and
\* background_with = 2 give the table (2,2,0,2) and one item with p_value = 1/3 and
\* adjusted_p_value = p_value.
C7_AsStated ==
    (Answered /\ subset_total_targets = 4 /\ background_total_targets = 4
              /\ OneAnnotationTwoOfTwo) =>
        /\ Len(fisher_calls) = 1
        /\ <<fisher_calls[1].a, fisher_calls[1].b, fisher_calls[1].c, fisher_calls[1].d>>
              = <<2, 2, 0, 2>>
        /\ OnlyItem(<<1, 3>>)

\* C7: subset_total = 2, background_total = 4, subset_with = 2 and background_with = 2
\* give the table (2,0,0,2) and one item with p_value = 1/3 and
\* adjusted_p_value = p_value.
C7_EndToEnd ==
    (Answered /\ subset_total_targets = 2 /\ background_total_targets = 4
              /\ OneAnnotationTwoOfTwo) =>
        /\ Len(fisher_calls) = 1
        /\ <<fisher_calls[1].a, fisher_calls[1].b, fisher_calls[1].c, fisher_calls[1].d>>
              = <<2, 0, 0, 2>>
        /\ OnlyItem(<<1, 3>>)

C7_Witness ==
    /\ Answered /\ subset_total_targets = 2 /\ background_total_targets = 4
    /\ OneAnnotationTwoOfTwo
    /\ OnlyItem(<<1, 3>>)

\* the id-mapping query was answered and its rows are resolved
Resolved ==
    /\ Len(queries) = 2
    /\ pc \in {"ann_full", "done"}
    /\ response # QueryErrorRaised

\* C8: target resolution puts compound_id into compound_ids iff it is present and
\* genbank_region_id is absent, genbank_region_id into genbank_region_ids iff it is
\* present and compound_id is absent, and drops every other row.
C8_ExactlyOnePresent ==
    Resolved =>
        /\ compound_ids = {r.compound_id : r \in {q \in item_rows :
                              q.compound_id # NULL /\ q.genbank_region_id = NULL}}
        /\ genbank_region_ids = {r.genbank_region_id : r \in {q \in item_rows :
                              q.genbank_region_id # NULL /\ q.compound_id = NULL}}

\* the per-row conditions of the claim on subset row k
RowQualifies(k) ==
    LET row == subset_rows[k]
        a == RowWith(row)
        b == subset_total_targets - a
    IN  \E i \in 1..Len(full_rows) :
           LET c == RowWith(full_rows[i]) - a
               d == (background_total_targets - subset_total_targets) - c
           IN  /\ full_rows[i].key = row.key
               /\ a > 0
               /\ RowWith(full_rows[i]) > 0
               /\ RowWith(full_rows[i]) >= a
               /\ a >= 0 /\ b >= 0 /\ c >= 0 /\ d >= 0

\* items holds exactly one entry for each subset row in the set `rows`, and no other
ItemsAreExactly(rows) ==
    /\ response.code = 200
    /\ Len(items) = Cardinality(rows)
    /\ \A k \in rows :
          Cardinality({n \in 1..Len(items) : items[n].key = subset_rows[k].key}) = 1
    /\ \A n \in 1..Len(items) : \E k \in rows : items[n].key = subset_rows[k].key

\* C9 as stated: a subset row yields exactly one item iff it has a matching full row,
\* positive counts, background_with >= subset_with and no negative cell; any other row
\* is dropped and the request does not fail.
C9_AsStated ==
    Answered => ItemsAreExactly({k \in 1..Len(subset_rows) : RowQualifies(k)})

\* C9: a subset row yields exactly one item iff background_total > subset_total and it
\* has a matching full row, positive counts, background_with >= subset_with and no
\* negative cell; any other row is dropped and the request does not fail.
C9_ItemsIffRowQualifies ==
    Answered =>
        ItemsAreExactly({k \in 1..Len(subset_rows) :
                            /\ background_total_targets > subset_total_targets
                            /\ RowQualifies(k)})

\* two subset rows, one kept and one dropped
C9_Witness ==
    /\ Answered
    /\ Len(subset_rows) = 2
    /\ Len(items) = 1
    /\ \E k \in 1..2 : RowQualifies(k) /\ items[1].key = subset_rows[k].key
    /\ \E k \in 1..2 : ~RowQualifies(k)

\* C10: every table handed to the exact test has four non-negative cells with
\* a + b = subset_total, c + d = background_total - subset_total,
\* a + c = background_with, a <= background_with and subset_total <= background_total;
\* the exact test never rejects a table of the handler.
C10_TablesWellFormed ==
    /\ response # ValueErrorRaised \/ fingerprint = "malformed"
    /\ \A k \in 1..Len(fisher_calls) :
          LET t == fisher_calls[k]
          IN  /\ t.a >= 0 /\ t.b >= 0 /\ t.c >= 0 /\ t.d >= 0
              /\ t.a + t.b = subset_total_targets
              /\ t.c + t.d = background_total_targets - subset_total_targets
              /\ t.a + t.c = t.background_with
              /\ t.a <= t.background_with
              /\ subset_total_targets <= background_total_targets

\* two tables tested in one request, one of them with every cell positive
C10_Witness ==
    /\ Len(fisher_calls) = 2
    /\ \E k \in 1..2 :
          /\ fisher_calls[k].a > 0 /\ fisher_calls[k].b > 0
          /\ fisher_calls[k].c > 0 /\ fisher_calls[k].d > 0

(***************************************************************************)
(* The handler's failure paths and the order of its queries (Spec).        *)
(***************************************************************************)
QueryNames == {queries[i].name : i \in 1..Len(queries)}

\* C11: when target resolution yields no compound id and no gene-cluster id,
\* run_enrichment answers 200 with an empty items list, and no request ever
\* issues an annotation-count or target-total query without a resolved target.
C11_EmptyTargetsShortCircuit ==
    /\ (Resolved /\ NoTargets(compound_ids, genbank_region_ids))
          => /\ pc = "done"
             /\ response = [code |-> 200, error |-> "none"]
             /\ items = <<>>
             /\ QueryNames = {"cross_modal_retrieval",
                              "retrieve_items_by_fingerprint_ids"}
    /\ (QueryNames \cap {"annotation_counts_full", "annotation_counts_subset",
                         "target_counts"} # {})
          => subset_total_targets > 0

\* id-mapping rows came back, yet none of them resolves to a target
C11_Witness ==
    /\ Resolved
    /\ item_rows # {}
    /\ NoTargets(compound_ids, genbank_region_ids)
    /\ response.code = 200
    /\ items = <<>>

\* C12: a request whose fingerprint512 is missing or malformed is answered with
\* a validation error (a 4xx answer that names the fault), and no database
\* query is issued for it.
C12_InvalidFingerprintRejected ==
    (pc = "done" /\ fingerprint \in {"missing", "malformed"})
        => /\ response.code = 400
           /\ queries = <<>>

\* C13: when a query of a run_enrichment request fails or times out, the request
\* fails with no items, no query is issued after the failed one, and no request
\* ever issues the same query twice.
C13_FailureIsFinal ==
    /\ [](response = QueryErrorRaised => (pc = "done" /\ items = <<>>))
    /\ [](\A i, j \in 1..Len(queries) : queries[i].name = queries[j].name => i = j)
    /\ [][response = QueryErrorRaised => queries' = queries]_vars

\* the full annotation counts fail after two queries succeeded
C13_Witness ==
    /\ response = QueryErrorRaised
    /\ Len(queries) = 3
    /\ queries[3].name = "annotation_counts_full"
    /\ subset_total_targets > 0

\* the k-th smallest raw p-value of the candidates, counted with repetitions
KthSmallest(k) ==
    LET n == Len(enrichment_candidates)
        p(j) == enrichment_candidates[j].p_value
    IN  CHOOSE v \in {p(j) : j \in 1..n} :
            /\ Cardinality({j \in 1..n : RLess(p(j), v)}) < k
            /\ k <= Cardinality({j \in 1..n : RLeq(p(j), v)})

\* min over the ranks i in lo..hi of p_i * m / i
MinOfRanks(lo, hi) ==
    LET m == Len(enrichment_candidates)
        scaled == {RScale(KthSmallest(i), m, i) : i \in lo..hi}
    IN  CHOOSE v \in scaled : \A w \in scaled : RLeq(v, w)

HasSmallestRawP(i) ==
    \A j \in 1..Len(enrichment_candidates) :
        RLeq(enrichment_candidates[i].p_value, enrichment_candidates[j].p_value)

ExampleRanked ==
    /\ pc = "ranked"
    /\ Len(enrichment_candidates) = Len(ExampleCandidates)
    /\ \A i \in 1..Len(ExampleCandidates) :
          enrichment_candidates[i].p_value = ExampleCandidates[i].p_value

\* C18 as stated: the adjusted p-value of the candidate with the smallest raw
\* p-value is the minimum of p_i * m / i over the ranks i up to its own rank,
\* which is rank 1, capped at 1; for 0.01, 0.02, 0.03, 0.04, 0.50 it is 0.05.
C18_AsStated ==
    pc = "ranked" =>
        /\ \A i \in 1..Len(enrichment_candidates) :
              HasSmallestRawP(i)
                 => enrichment_candidates[i].adjusted_p_value
                       = RMin(ROne, MinOfRanks(1, 1))
        /\ ExampleRanked => enrichment_candidates[1].adjusted_p_value = Frac(5, 100)

\* C18: the adjusted p-value of the candidate with the smallest raw p-value is
\* the minimum of p_i * m / i over the ranks i from its own rank up, that is over
\* all ranks 1..m, capped at 1; for 0.01, 0.02, 0.03, 0.04, 0.50 it is 0.05.
C18_SmallestTakesMinOfAllRanks ==
    (pc = "ranked" /\ Len(enrichment_candidates) >= 1) =>
        /\ \A i \in 1..Len(enrichment_candidates) :
              HasSmallestRawP(i)
                 => enrichment_candidates[i].adjusted_p_value
                       = RMin(ROne, MinOfRanks(1, Len(enrichment_candidates)))
        /\ ExampleRanked => enrichment_candidates[1].adjusted_p_value = Frac(5, 100)

\* the example list, corrected
C18_Witness ==
    /\ ExampleRanked
    /\ HasSmallestRawP(1)
    /\ enrichment_candidates[1].adjusted_p_value = Frac(5, 100)
    /\ enrichment_candidates[5].adjusted_p_value = Frac(50, 100)

\* C19: with exactly one candidate its adjusted_p_value is its raw p_value; with
\* no candidate nothing is corrected and items is empty.
C19_OneOrNoCandidate ==
    pc = "ranked" =>
        /\ Len(enrichment_candidates) = 1 =>
              /\ enrichment_candidates[1].adjusted_p_value
                    = enrichment_candidates[1].p_value
              /\ Len(items) = 1
              /\ items[1].adjusted_p_value = items[1].p_value
        /\ Len(enrichment_candidates) = 0 =>
              /\ BenjaminiHochberg(enrichment_candidates) = <<>>
              /\ items = <<>>

\* one candidate with a raw p-value strictly between 0 and 1
C19_Witness ==
    /\ pc = "ranked"
    /\ Len(enrichment_candidates) = 1
    /\ RLess(RZero, enrichment_candidates[1].p_value)
    /\ RLess(enrichment_candidates[1].p_value, ROne)
    /\ items[1].adjusted_p_value = enrichment_candidates[1].p_value

(***************************************************************************)
(* Properties of the ranking (SpecBH).                                     *)
(***************************************************************************)
\* C14: items is sorted ascending by (adjusted_p_value, p_value): of two
\* consecutive items the earlier has the smaller adjusted_p_value, or the same
\* one and a p_value that is not larger; and items holds exactly one entry per
\* enrichment candidate, carrying that candidate's two values.
C14_ItemsSorted ==
    pc = "ranked" =>
        /\ \A k \in 1..(Len(items) - 1) :
              \/ RLess(items[k].adjusted_p_value, items[k + 1].adjusted_p_value)
              \/ /\ items[k].adjusted_p_value = items[k + 1].adjusted_p_value
                 /\ RLeq(items[k].p_value, items[k + 1].p_value)
        /\ Len(items) = Len(enrichment_candidates)
        /\ \A i \in 1..Len(enrichment_candidates) :
              Cardinality({k \in 1..Len(items) :
                              items[k].key = enrichment_candidates[i].key}) = 1
        /\ \A k \in 1..Len(items) : \E i \in 1..Len(enrichment_candidates) :
              /\ items[k].key = enrichment_candidates[i].key
              /\ items[k].p_value = enrichment_candidates[i].p_value
              /\ items[k].adjusted_p_value = enrichment_candidates[i].adjusted_p_value

\* three items not in candidate order, two of them tied on the adjusted value
\* and told apart by the raw one
C14_Witness ==
    /\ pc = "ranked"
    /\ Len(items) = 3
    /\ items[1].key # enrichment_candidates[1].key
    /\ \E k \in 1..2 :
          /\ items[k].adjusted_p_value = items[k + 1].adjusted_p_value
          /\ RLess(items[k].p_value, items[k + 1].p_value)
    /\ RLess(items[1].adjusted_p_value, items[3].adjusted_p_value)

\* this step issues the query `name`
Issues(name) ==
    /\ Len(queries') = Len(queries) + 1
    /\ queries'[Len(queries')].name = name

\* C20: the id-mapping query is issued only once the similarity search has
\* returned fewer rows than the cap; the subset annotation-count query is issued
\* only once the id-mapping query has returned and both id sets are built from
\* its rows, with at least one target id in them.
C20_QueriesFollowDependencies ==
    /\ [][Issues("retrieve_items_by_fingerprint_ids")
            => /\ QueryNames = {"cross_modal_retrieval"}
               /\ result.rows < max_limit_in_group]_vars
    /\ [](pc = "ann_full"
            => /\ compound_ids = ResolveCompounds(item_rows)
               /\ genbank_region_ids = ResolveGenbankRegions(item_rows))
    /\ [][(pc \in {"ann_full", "ann_subset"} /\ ~Issues("annotation_counts_subset"))
            => /\ compound_ids' = compound_ids
               /\ genbank_region_ids' = genbank_region_ids]_vars
    /\ [][Issues("annotation_counts_subset")
            => /\ "retrieve_items_by_fingerprint_ids" \in QueryNames
               /\ "annotation_counts_full" \in QueryNames
               /\ compound_ids \cup genbank_region_ids # {}
               /\ subset_total_targets
                     = Cardinality(compound_ids) + Cardinality(genbank_region_ids)]_vars

\* the subset counts were asked for, fourth, for two resolved targets
C20_Witness ==
    /\ pc = "target_counts"
    /\ Len(queries) = 4
    /\ queries[2].name = "retrieve_items_by_fingerprint_ids"
    /\ queries[4].name = "annotation_counts_subset"
    /\ subset_total_targets = 2

(***************************************************************************)
(* The exact test on a negative count (SpecFisher).                        *)
(***************************************************************************)
\* C17: when one of a, b, c, d is negative the exact test raises, before any
\* probability is computed, and returns no p-value; it raises in no other case.
C17_NegativeRejected ==
    pc = "fisher_returned" =>
        /\ p_value.raised <=> ~NonNegative(table)
        /\ ~NonNegative(table) => p_value = [raised |-> TRUE, p |-> RZero]

\* a single negative count, in the second row, among positive ones
C17_Witness ==
    /\ pc = "fisher_returned"
    /\ table[1] > 0
    /\ table[2] > 0
    /\ table[3] > 0
    /\ table[4] < 0
    /\ p_value.raised

AnyZeroMargin(t) ==
    t[1] + t[2] = 0 \/ t[3] + t[4] = 0 \/ t[1] + t[3] = 0 \/ t[2] + t[4] = 0

ZeroMargin(t) == t[1] + t[2] = 0 \/ t[1] + t[3] = 0

MaxClock == 2               \* time.time() ranges over 0..MaxClock seconds
JOB_TIMEOUT_SECONDS == 1    \* session_store.py:11, the value of the environment variable

\* d.get(k), d.get(k, default) and d[k] = v
Get(d, k) == IF k \in DOMAIN d THEN d[k] ELSE "None"
GetOr(d, k, default) == IF k \in DOMAIN d THEN d[k] ELSE default
With(d, k, v) == [x \in DOMAIN d \cup {k} |-> IF x = k THEN v ELSE d[x]]

\* truth value of an id: None and "" are false
TruthyId(v) == v # "None" /\ v # ""

\* int(time.time() * 1000)
NowMs == clock * 1000

\* session_store.py:312-318
SERVER_OWNED_FIELDS == {"status", "errorMessage", "fingerprint512", "coverage", "updatedAt"}

\* redis_client.set(key, value, ex=...) and redis_client.delete(key)
RedisSet(r, key, value) == [r EXCEPT ![key] = value]
RedisDelete(r, key) == [r EXCEPT ![key] = Nil]

\* jobs.py:37-52
set_item_status_inplace(item, status, error_message) ==
    LET timed == With(With(item, "status", status), "updatedAt", NowMs)
    IN  IF error_message # "None" THEN With(timed, "errorMessage", error_message)
        ELSE IF "errorMessage" \in DOMAIN timed THEN With(timed, "errorMessage", "None")
        ELSE timed

(***************************************************************************)
(* What a client may send.                                                 *)
(***************************************************************************)
\* an item as the client first makes it, and one that carries a value for
\* every server-owned field
PlainItem(i, kind) == [id |-> i, kind |-> kind, name |-> "a"]
ForgedItem(i, status) ==
    [id |-> i, kind |-> "compound", name |-> "a", status |-> status,
     errorMessage |-> "forged", updatedAt |-> 0, fingerprint512 |-> "ff", coverage |-> 1]
ClientItems(i) == {PlainItem(i, "compound"), ForgedItem(i, "processing")}

\* the "items" of a session the client sends
ClientItemLists == {<<>>} \cup {<<x>> : x \in UNION {ClientItems(i) : i \in ItemIds}}
ClientSessions == {[sessionId |-> s, items |-> l] : s \in SessionIds, l \in ClientItemLists}

\* the ids of the items of a list that have one, in order
RECURSIVE IdsOf(_)
IdsOf(l) ==
    IF l = <<>> THEN <<>>
    ELSE IF TruthyId(Get(Head(l), "id")) THEN <<Head(l).id>> \o IdsOf(Tail(l))
    ELSE IdsOf(Tail(l))

Range(l) == {l[n] : n \in DOMAIN l}

(***************************************************************************)
(* The functions of session_store.py.                                      *)
(***************************************************************************)
\* the loop of create_session, session_store.py:156-166: one blob per item that has an id
RECURSIVE StoreItems(_, _, _)
StoreItems(r, session_id, l) ==
    IF l = <<>> THEN r
    ELSE IF TruthyId(Get(Head(l), "id"))
         THEN StoreItems(RedisSet(r, item_key(session_id, Head(l).id), Head(l)),
                         session_id, Tail(l))
         ELSE StoreItems(r, session_id, Tail(l))

\* session_store.py:135-171
create_session(r, session) ==
    RedisSet(StoreItems(r, session.sessionId, session.items),
             session_key(session.sessionId),
             With(session, "items", IdsOf(session.items)))

RECURSIVE DeleteItems(_, _, _)
DeleteItems(r, session_id, ids) ==
    IF ids = <<>> THEN r
    ELSE DeleteItems(RedisDelete(r, item_key(session_id, Head(ids))), session_id, Tail(ids))

\* session_store.py:221-240
delete_session(r, session_id) ==
    LET meta == r[session_key(session_id)]
    IN  IF meta = Nil THEN r
        ELSE RedisDelete(DeleteItems(r, session_id, meta.items), session_key(session_id))

\* every field of the second object copied over the first
Updated(old, new) ==
    [k \in DOMAIN old \cup DOMAIN new |-> IF k \in DOMAIN new THEN new[k] ELSE old[k]]

MergeFieldsUnfiltered(old_item, new_item) == Updated(old_item, new_item)

\* the client's fields copied over the stored item, session_store.py:363-366
MergeFields(old_item, new_item) ==
    LET copied == DOMAIN new_item \ SERVER_OWNED_FIELDS
    IN  [k \in DOMAIN old_item \cup copied |->
            IF k \in copied THEN new_item[k] ELSE old_item[k]]

\* old_by_id.get(item_id), session_store.py:341-355: the last loaded item of that id
OldById(old_items, item_id) ==
    LET hits == {n \in DOMAIN old_items : Get(old_items[n], "id") = item_id}
    IN  IF hits = {} THEN Nil
        ELSE old_items[CHOOSE n \in hits : \A m \in hits : m <= n]

\* merged_items, session_store.py:347-368
RECURSIVE MergedItems(_, _)
MergedItems(old_items, new_items) ==
    IF new_items = <<>> THEN <<>>
    ELSE LET new_item == Head(new_items)
             item_id == Get(new_item, "id")
             old_item == OldById(old_items, item_id)
         IN  IF ~TruthyId(item_id) THEN MergedItems(old_items, Tail(new_items))
             ELSE IF old_item = Nil THEN <<new_item>> \o MergedItems(old_items, Tail(new_items))
             ELSE <<MergeFields(old_item, new_item)>>
                      \o MergedItems(old_items, Tail(new_items))

\* deleted_ids, session_store.py:340, 371-372
DeletedIds(old_items, new_items) == Range(IdsOf(old_items)) \ Range(IdsOf(new_items))

\* the metadata merge_session_from_client stores last, session_store.py:381-390
MergedMeta(old_meta, new_session) ==
    With(Updated(old_meta, new_session), "items", IdsOf(new_session.items))

\* save_item up to its first command, session_store.py:266-281: the metadata
\* it is going to store, Nil when the item is listed already
MetaToStore(meta, item_id) ==
    IF item_id \in Range(meta.items) THEN Nil
    ELSE With(meta, "items", Append(meta.items, item_id))

(***************************************************************************)
(* A client of the store: create_session and delete_session, each in one   *)
(* step, and merge_session_from_client, one step per Redis command.        *)
(***************************************************************************)
\* session_store.py:135-171
CreateSession ==
    /\ client.pc = "idle"
    /\ \E session \in ClientSessions : redis' = create_session(redis, session)
    /\ client' = IdleProcess
    /\ UNCHANGED <<enrichment_vars, clock, job, dog, SESSIONS, rendered, codec, bh_rounding>>

\* session_store.py:221-240
DeleteSession ==
    /\ client.pc = "idle"
    /\ \E session_id \in SessionIds : redis' = delete_session(redis, session_id)
    /\ client' = IdleProcess
    /\ UNCHANGED <<enrichment_vars, clock, job, dog, SESSIONS, rendered, codec, bh_rounding>>

\* where merge_session_from_client goes on: session_store.py:373, 377, 391
MergePhase(c) ==
    IF c.deleted # {} THEN [c EXCEPT !.pc = "merge_delete"]
    ELSE IF c.merged # <<>> THEN [c EXCEPT !.pc = "merge_save"]
    ELSE [c EXCEPT !.pc = "merge_meta"]

\* session_store.py:337-372, once load_session_with_items has returned
MergeLoaded(c) ==
    MergePhase([pc |-> "merge_loaded", new_session |-> c.new_session, old_meta |-> c.old_meta,
                deleted |-> DeletedIds(c.old_items, c.new_session.items),
                merged |-> MergedItems(c.old_items, c.new_session.items)])

MergeLoading(c) == IF c.ids = <<>> THEN MergeLoaded(c) ELSE c

\* session_store.py:328-335 with load_session_meta, 174-185
MergeStart ==
    /\ client.pc = "idle"
    /\ \E new_session \in ClientSessions :
          LET meta == redis[session_key(new_session.sessionId)]
          IN  client' = IF meta = Nil THEN IdleProcess
                        ELSE MergeLoading([pc |-> "merge_load",
                                           new_session |-> new_session, old_meta |-> meta,
                                           ids |-> meta.items, old_items |-> <<>>])
    /\ UNCHANGED <<enrichment_vars, redis, clock, job, dog, SESSIONS, rendered, codec,
                   bh_rounding>>

\* one pass of the loop of load_session_with_items, session_store.py:203-212
MergeLoadItem ==
    /\ client.pc = "merge_load"
    /\ LET data == redis[item_key(client.new_session.sessionId, Head(client.ids))]
       IN  client' = MergeLoading([client EXCEPT
                         !.ids = Tail(@),
                         !.old_items = IF data = Nil THEN @ ELSE Append(@, data)])
    /\ UNCHANGED <<enrichment_vars, redis, clock, job, dog, SESSIONS, rendered, codec,
                   bh_rounding>>

\* one pass of the loop session_store.py:373-374, the set taken in any order
MergeDelete ==
    /\ client.pc = "merge_delete"
    /\ \E item_id \in client.deleted :
          /\ redis' = RedisDelete(redis, item_key(client.new_session.sessionId, item_id))
          /\ client' = MergePhase([client EXCEPT !.deleted = @ \ {item_id}])
    /\ UNCHANGED <<enrichment_vars, clock, job, dog, SESSIONS, rendered, codec, bh_rounding>>

\* save_item of the next merged item up to load_session_meta, session_store.py:266-273
MergeSaveItemLoadMeta ==
    /\ client.pc = "merge_save"
    /\ LET meta == redis[session_key(client.new_session.sessionId)]
       IN  client' =
             IF meta = Nil THEN IdleProcess
             ELSE IF MetaToStore(meta, Head(client.merged).id) = Nil
                  THEN [client EXCEPT !.pc = "merge_save_blob"]
                  ELSE [pc |-> "merge_save_meta",
                        new_session |-> client.new_session, old_meta |-> client.old_meta,
                        deleted |-> client.deleted, merged |-> client.merged,
                        meta |-> MetaToStore(meta, Head(client.merged).id)]
    /\ UNCHANGED <<enrichment_vars, redis, clock, job, dog, SESSIONS, rendered, codec,
                   bh_rounding>>

\* session_store.py:275-281
MergeSaveItemSetMeta ==
    /\ client.pc = "merge_save_meta"
    /\ redis' = RedisSet(redis, session_key(client.new_session.sessionId), client.meta)
    /\ client' = [pc |-> "merge_save_blob",
                  new_session |-> client.new_session, old_meta |-> client.old_meta,
                  deleted |-> client.deleted, merged |-> client.merged]
    /\ UNCHANGED <<enrichment_vars, clock, job, dog, SESSIONS, rendered, codec, bh_rounding>>

\* session_store.py:284-289
MergeSaveItemSetBlob ==
    /\ client.pc = "merge_save_blob"
    /\ redis' = RedisSet(redis, item_key(client.new_session.sessionId,
                                         Head(client.merged).id),
                         Head(client.merged))
    /\ client' = MergePhase([client EXCEPT !.merged = Tail(@)])
    /\ UNCHANGED <<enrichment_vars, clock, job, dog, SESSIONS, rendered, codec, bh_rounding>>

\* session_store.py:381-395
MergeSetMeta ==
    /\ client.pc = "merge_meta"
    /\ redis' = RedisSet(redis, session_key(client.new_session.sessionId),
                         MergedMeta(client.old_meta, client.new_session))
    /\ client' = IdleProcess
    /\ UNCHANGED <<enrichment_vars, clock, job, dog, SESSIONS, rendered, codec, bh_rounding>>

(***************************************************************************)
(* The submit handlers, jobs.py:262-365 (submit_compound) and 368-472      *)
(* (submit_gene_cluster).  The copies of the item's "smiles" and           *)
(* "fileContent" follow the copy of its "name" and are left out.           *)
(***************************************************************************)
Handlers == {"submit_compound", "submit_gene_cluster"}
KindOf(handler) == IF handler = "submit_compound" THEN "compound" ELSE "gene_cluster"
JobNames == {"None"}

\* `name or it.get("name")`
NameOr(name, it) == IF name # "None" /\ name # "" THEN name ELSE Get(it, "name")

\* the mutators, jobs.py:305-313, 326-338, 345-346
mark_processing(it, name) ==
    set_item_status_inplace(With(it, "name", NameOr(name, it)), "processing", "None")
mark_done(it, name) ==
    set_item_status_inplace(
        With(With(With(it, "name", NameOr(name, it)), "fingerprints", "computed"),
             "primarySequences", "computed"),
        "done", "None")
mark_error(it, e) == set_item_status_inplace(it, "error", e)

Mutate(j, it) ==
    IF j.update = "processing" THEN mark_processing(it, j.name)
    ELSE IF j.update = "done" THEN mark_done(it, j.name)
    ELSE mark_error(it, j.error)

Answer(j, code, status) ==
    [pc |-> "returned", session_id |-> j.session_id,
     item_id |-> j.item_id, handler |-> j.handler,
     answer |-> [code |-> code, status |-> status]]

\* what the handler does when update_item has returned `ok`, jobs.py:315-318, 340, 348-365
AfterUpdate(j, ok) ==
    IF j.update = "processing"
    THEN IF ok THEN [j EXCEPT !.pc = "job_compute"] ELSE Answer(j, 404, "None")
    ELSE IF j.update = "done" THEN Answer(j, 200, "done")
    ELSE Answer(j, 500, "error")

\* and when save_item has raised ValueError inside update_item: only the
\* update of mark_done runs inside the try block, jobs.py:320-346
AfterRaise(j) ==
    IF j.update = "done"
    THEN [j EXCEPT !.pc = "job_load", !.update = "error", !.error = "ValueError"]
    ELSE Answer(j, 500, "unhandled")

JobReady == job.pc \in {"idle", "returned"}

\* jobs.py:283-285
JobMissingIds ==
    /\ JobReady
    /\ \E handler \in Handlers :
          job' = Answer([session_id |-> "None",
                         item_id |-> "None", handler |-> handler], 400, "None")
    /\ UNCHANGED <<enrichment_vars, redis, clock, client, dog, SESSIONS, rendered, codec,
                   bh_rounding>>

\* jobs.py:288-291 with load_session_meta: the session is looked up
JobSubmit ==
    /\ JobReady
    /\ \E handler \in Handlers, session_id \in SessionIds, item_id \in ItemIds,
          name \in JobNames :
          LET meta == redis[session_key(session_id)]
              j == [pc |-> "job_find",
                    handler |-> handler, session_id |-> session_id,
                    item_id |-> item_id, name |-> name, update |-> "processing",
                    error |-> "None", item |-> Nil, meta |-> Nil]
          IN  job' = IF meta = Nil THEN Answer(j, 404, "None")
                     ELSE [j EXCEPT !.meta = meta]
    /\ UNCHANGED <<enrichment_vars, redis, clock, client, dog, SESSIONS, rendered, codec,
                   bh_rounding>>

\* the rest of load_session_with_items and jobs.py:293-300: the item is
\* looked up among the listed items and its kind is checked
JobFindItem ==
    /\ job.pc = "job_find"
    /\ LET data == redis[item_key(job.session_id, job.item_id)]
           j == [job EXCEPT !.meta = Nil]
       IN  job' = IF job.item_id \notin Range(job.meta.items) \/ data = Nil
                  THEN Answer(j, 404, "None")
                  ELSE IF Get(data, "kind") # KindOf(job.handler) THEN Answer(j, 400, "None")
                  ELSE [j EXCEPT !.pc = "job_load"]
    /\ UNCHANGED <<enrichment_vars, redis, clock, client, dog, SESSIONS, rendered, codec,
                   bh_rounding>>

\* update_item up to the mutator, session_store.py:303-306 with load_item
JobLoadItem ==
    /\ job.pc = "job_load"
    /\ LET item == redis[item_key(job.session_id, job.item_id)]
       IN  job' = IF item = Nil THEN AfterUpdate(job, FALSE)
                  ELSE [job EXCEPT !.pc = "job_save", !.item = Mutate(job, item)]
    /\ UNCHANGED <<enrichment_vars, redis, clock, client, dog, SESSIONS, rendered, codec,
                   bh_rounding>>

\* save_item up to load_session_meta, session_store.py:266-273
JobSaveItemLoadMeta ==
    /\ job.pc = "job_save"
    /\ LET meta == redis[session_key(job.session_id)]
       IN  job' = IF meta = Nil THEN AfterRaise([job EXCEPT !.item = Nil])
                  ELSE IF MetaToStore(meta, job.item_id) = Nil
                       THEN [job EXCEPT !.pc = "job_save_blob"]
                       ELSE [job EXCEPT !.pc = "job_save_meta",
                                        !.meta = MetaToStore(meta, job.item_id)]
    /\ UNCHANGED <<enrichment_vars, redis, clock, client, dog, SESSIONS, rendered, codec,
                   bh_rounding>>

\* session_store.py:275-281
JobSaveItemSetMeta ==
    /\ job.pc = "job_save_meta"
    /\ redis' = RedisSet(redis, session_key(job.session_id), job.meta)
    /\ job' = [job EXCEPT !.pc = "job_save_blob", !.meta = Nil]
    /\ UNCHANGED <<enrichment_vars, clock, client, dog, SESSIONS, rendered, codec, bh_rounding>>

\* session_store.py:284-289 and the return of update_item
JobSaveItemSetBlob ==
    /\ job.pc = "job_save_blob"
    /\ redis' = RedisSet(redis, item_key(job.session_id, job.item_id), job.item)
    /\ job' = AfterUpdate([job EXCEPT !.item = Nil], TRUE)
    /\ UNCHANGED <<enrichment_vars, clock, client, dog, SESSIONS, rendered, codec, bh_rounding>>

\* the heavy work, jobs.py:322-323: it returns the fingerprints or raises
JobCompute ==
    /\ job.pc = "job_compute"
    /\ \E raised \in BOOLEAN :
          job' = [job EXCEPT !.pc = "job_load",
                             !.update = IF raised THEN "error" ELSE "done",
                             !.error = IF raised THEN "failed" ELSE "None"]
    /\ UNCHANGED <<enrichment_vars, redis, clock, client, dog, SESSIONS, rendered, codec,
                   bh_rounding>>

(***************************************************************************)
(* The watchdog: one run of mark_stale_processing_items,                   *)
(* session_store.py:56-95, started by the loop of maintenance.py:17-28.    *)
(* scan_iter hands out the item keys that are stored when the run starts.  *)
(***************************************************************************)
ItemKeys == {item_key(s, i) : s \in SessionIds, i \in ItemIds}

\* int(item.get("updatedAt", 0)); a stored "updatedAt" is a number here
UpdatedAt(item) == GetOr(item, "updatedAt", 0)

max_age_ms == JOB_TIMEOUT_SECONDS * 1000

IsStaleOfError(item, now_ms) ==
    /\ Get(item, "status") = "error"
    /\ now_ms - UpdatedAt(item) > max_age_ms

\* session_store.py:77-87
IsStale(item, now_ms) ==
    /\ Get(item, "status") = "processing"
    /\ now_ms - UpdatedAt(item) > max_age_ms

\* session_store.py:88-90
TimedOut(item, now_ms) ==
    With(With(With(item, "status", "error"), "errorMessage", "Processing timed out"),
         "updatedAt", now_ms)

DogNext(d) == IF d.keys = {} THEN IdleProcess ELSE [d EXCEPT !.pc = "dog_scan"]

\* session_store.py:62-67
DogStart ==
    /\ dog.pc = "idle"
    /\ dog' = DogNext([pc |-> "dog_scan", now_ms |-> NowMs,
                       keys |-> {k \in ItemKeys : redis[k] # Nil}])
    /\ UNCHANGED <<enrichment_vars, redis, clock, client, job, SESSIONS, rendered, codec,
                   bh_rounding>>

\* session_store.py:68-90: the item of the next key is read and examined
DogGet ==
    /\ dog.pc = "dog_scan"
    /\ \E key \in dog.keys :
          LET raw == redis[key]
          IN  dog' = IF raw # Nil /\ IsStale(raw, dog.now_ms)
                     THEN [pc |-> "dog_set", now_ms |-> dog.now_ms, keys |-> dog.keys,
                           key |-> key, item |-> TimedOut(raw, dog.now_ms)]
                     ELSE DogNext([dog EXCEPT !.keys = @ \ {key}])
    /\ UNCHANGED <<enrichment_vars, redis, clock, client, job, SESSIONS, rendered, codec,
                   bh_rounding>>

\* session_store.py:92-93
DogSet ==
    /\ dog.pc = "dog_set"
    /\ redis' = RedisSet(redis, dog.key, dog.item)
    /\ dog' = DogNext([pc |-> "dog_scan", now_ms |-> dog.now_ms,
                       keys |-> dog.keys \ {dog.key}])
    /\ UNCHANGED <<enrichment_vars, clock, client, job, SESSIONS, rendered, codec,
                   bh_rounding>>

\* time passes
Tick ==
    /\ clock < MaxClock
    /\ clock' = clock + 1
    /\ UNCHANGED <<enrichment_vars, redis, client, job, dog, SESSIONS, rendered, codec,
                   bh_rounding>>

(***************************************************************************)
(* The store with its three processes interleaved at every Redis command   *)
(* (SpecStore).                                                            *)
(***************************************************************************)
InitStore ==
    /\ pc = "store"
    /\ Idle
    /\ enrichment_candidates = <<>>
    /\ items = <<>>
    /\ table = NoTable
    /\ p_value = NoValue

ClientStep ==
    \/ CreateSession
    \/ DeleteSession
    \/ MergeStart
    \/ MergeLoadItem
    \/ MergeDelete
    \/ MergeSaveItemLoadMeta
    \/ MergeSaveItemSetMeta
    \/ MergeSaveItemSetBlob
    \/ MergeSetMeta

JobStep ==
    \/ JobMissingIds
    \/ JobSubmit
    \/ JobFindItem
    \/ JobLoadItem
    \/ JobSaveItemLoadMeta
    \/ JobSaveItemSetMeta
    \/ JobSaveItemSetBlob
    \/ JobCompute

DogStep == DogStart \/ DogGet \/ DogSet

NextStore == ClientStep \/ JobStep \/ DogStep \/ Tick

SpecStore == InitStore /\ [][NextStore]_vars

ClientBusy == client.pc # "idle"
JobBusy == job.pc \notin {"idle", "returned"}
DogBusy == dog.pc # "idle"

(***************************************************************************)
(* The in-memory sessions: the routes of routes/session.py on              *)
(* app.config["SESSIONS"] and the daily clear_sessions of app.py:46-71.    *)
(* Each request is one step.                                               *)
(***************************************************************************)
MaxDays == 9                \* with TickDay, time.time() ranges over 1..MaxDays days
DaySeconds == 86400
SevenDays == 86400 * 7

\* a session as the client sends it to createSession: without "created", or
\* with the client's own time in milliseconds or in seconds
MemoryClientSessions ==
    {[sessionId |-> s, items |-> l] : s \in SessionIds, l \in ClientItemLists}
        \cup {[sessionId |-> s, items |-> l, created |-> t] :
                 s \in SessionIds, l \in ClientItemLists, t \in {NowMs, clock}}

\* session.py:37-42; a "created" the client sends is a number here
NormalizedCreated(new_session) == GetOr(new_session, "created", NowMs)

\* session.py:16-53
MemoryCreateSession ==
    /\ \E new_session \in MemoryClientSessions :
          /\ new_session.sessionId \notin DOMAIN SESSIONS
          /\ SESSIONS' = With(SESSIONS, new_session.sessionId,
                              With(new_session, "created", NormalizedCreated(new_session)))
    /\ UNCHANGED <<enrichment_vars, redis, clock, client, job, dog, rendered, codec,
                   bh_rounding>>

Without(d, k) == [x \in DOMAIN d \ {k} |-> d[x]]

\* session.py:56-74
MemoryDeleteSession ==
    /\ \E session_id \in DOMAIN SESSIONS : SESSIONS' = Without(SESSIONS, session_id)
    /\ UNCHANGED <<enrichment_vars, redis, clock, client, job, dog, rendered, codec,
                   bh_rounding>>

\* existing_by_id.get(item_id), session.py:139-153: the last item of that id
ExistingById(existing_items, item_id) == OldById(existing_items, item_id)

\* one merged item, session.py:160-172
Merged(srv, inc) ==
    LET kind == GetOr(inc, "kind", Get(srv, "kind"))
        kinded == With(srv, "kind", kind)
    IN  IF kind = "compound"
        THEN With(With(kinded, "name", GetOr(inc, "name", Get(kinded, "name"))),
                  "smiles", GetOr(inc, "smiles", Get(kinded, "smiles")))
        ELSE IF kind = "gene_cluster"
        THEN With(With(kinded, "fileName", GetOr(inc, "fileName", Get(kinded, "fileName"))),
                  "fileContent", GetOr(inc, "fileContent", Get(kinded, "fileContent")))
        ELSE kinded

\* merged_items, session.py:146-175
RECURSIVE MemoryMergedItems(_, _)
MemoryMergedItems(existing_items, incoming_items) ==
    IF incoming_items = <<>> THEN <<>>
    ELSE LET inc == Head(incoming_items)
             item_id == Get(inc, "id")
             srv == ExistingById(existing_items, item_id)
             rest == MemoryMergedItems(existing_items, Tail(incoming_items))
         IN  IF ~TruthyId(item_id) THEN rest
             ELSE IF srv = Nil THEN <<inc>> \o rest
             ELSE <<Merged(srv, inc)>> \o rest

\* session.py:104-181; the client sends back the "created" it was given, or none
save_session(old_session, new_session) ==
    With(With(With(old_session, "sessionId", new_session.sessionId),
              "created", GetOr(new_session, "created", Get(old_session, "created"))),
         "items", MemoryMergedItems(old_session.items, new_session.items))

SaveSession ==
    /\ \E session_id \in DOMAIN SESSIONS, l \in ClientItemLists, echo \in BOOLEAN :
          LET sent == [sessionId |-> session_id, items |-> l]
              new_session == IF echo THEN With(sent, "created", SESSIONS[session_id].created)
                             ELSE sent
          IN  SESSIONS' = With(SESSIONS, session_id,
                               save_session(SESSIONS[session_id], new_session))
    /\ UNCHANGED <<enrichment_vars, redis, clock, client, job, dog, rendered, codec,
                   bh_rounding>>

\* app.py:46-59, time.time() in whole seconds
Expired(session) == clock - session.created >= SevenDays
clear_sessions(sessions) ==
    [s \in {x \in DOMAIN sessions : ~Expired(sessions[x])} |-> sessions[s]]

ClearSessions ==
    /\ SESSIONS' = clear_sessions(SESSIONS)
    /\ UNCHANGED <<enrichment_vars, redis, clock, client, job, dog, rendered, codec,
                   bh_rounding>>

\* a day passes
TickDay ==
    /\ clock + DaySeconds <= MaxDays * DaySeconds
    /\ clock' = clock + DaySeconds
    /\ UNCHANGED <<enrichment_vars, redis, client, job, dog, SESSIONS, rendered, codec,
                   bh_rounding>>

MemoryStep == MemoryCreateSession \/ MemoryDeleteSession \/ SaveSession \/ ClearSessions

(***************************************************************************)
(* The in-memory sessions over ten days (SpecMemory).                      *)
(***************************************************************************)
InitMemory ==
    /\ pc = "memory"
    /\ EngineIdle
    /\ ServicesAtRest
    /\ clock = DaySeconds
    /\ enrichment_candidates = <<>>
    /\ items = <<>>
    /\ table = NoTable
    /\ p_value = NoValue

NextMemory == MemoryStep \/ TickDay

SpecMemory == InitMemory /\ [][NextMemory]_vars

(***************************************************************************)
(* Both session services with every request, handler and watchdog run      *)
(* taken to its end before the next one starts (SpecSerial).               *)
(***************************************************************************)
NextSerial ==
    \/ ~JobBusy /\ ~DogBusy /\ ClientStep
    \/ ~ClientBusy /\ ~DogBusy /\ JobStep
    \/ ~ClientBusy /\ ~JobBusy /\ DogStep
    \/ ~ClientBusy /\ ~JobBusy /\ ~DogBusy /\ MemoryStep
    \/ Tick

SpecSerial == InitStore /\ [][NextSerial]_vars

(***************************************************************************)
(* Properties of a client save run alone (SpecSerial).                     *)
(***************************************************************************)
\* the values an item holds for the server-owned fields
ServerOwned(item) == [f \in SERVER_OWNED_FIELDS \cap DOMAIN item |-> item[f]]

MergePcs == {"merge_load", "merge_delete", "merge_save", "merge_save_meta",
             "merge_save_blob", "merge_meta"}

\* the items of the in-memory session s that have the id i
StoredWithId(sessions, s, i) ==
    {sessions[s].items[n] : n \in {x \in DOMAIN sessions[s].items :
                                       Get(sessions[s].items[x], "id") = i}}

\* C21: no step of a client save that runs with nothing interleaved changes
\* the value stored for a server-owned field of an item that existed when
\* the save began, whatever the client sent for it: neither a step of
\* merge_session_from_client on the key-value store nor saveSession on the
\* in-memory sessions
C21_ServerOwnedFieldsKept ==
    [][/\ \A s \in SessionIds, i \in ItemIds :
            (/\ client.pc \in MergePcs
             /\ client.new_session.sessionId = s
             /\ i \in Range(client.old_meta.items)
             /\ redis[item_key(s, i)] # Nil
             /\ redis'[item_key(s, i)] # Nil)
            => ServerOwned(redis'[item_key(s, i)]) = ServerOwned(redis[item_key(s, i)])
       /\ \A s \in DOMAIN SESSIONS \cap DOMAIN SESSIONS', i \in ItemIds :
            \A old \in StoredWithId(SESSIONS, s, i), new \in StoredWithId(SESSIONS', s, i) :
                ServerOwned(new) = ServerOwned(old)
      ]_vars

\* a save that sends status "processing" for the item is about to end and
\* the stored item is still "done", as the handler left it; and the
\* in-memory session holds an item with a status that a save has merged
C21_Witness ==
    /\ client.pc = "merge_meta"
    /\ client.new_session.items = <<ForgedItem("i1", "processing")>>
    /\ "i1" \in Range(client.old_meta.items)
    /\ Get(redis[item_key("s1", "i1")], "status") = "done"
    /\ "s1" \in DOMAIN SESSIONS
    /\ \E it \in StoredWithId(SESSIONS, "s1", "i1") :
          "smiles" \in DOMAIN it /\ "status" \in DOMAIN it

(***************************************************************************)
(* Properties of the store under interleaving (SpecStore).                 *)
(***************************************************************************)
\* the handler has answered with the status it stored for the item, and the
\* stored item has that status
JobStored(s, i) ==
    /\ job.pc = "returned"
    /\ job.session_id = s
    /\ job.item_id = i
    /\ job.answer.status \in {"done", "error"}
    /\ redis[item_key(s, i)] # Nil
    /\ Get(redis[item_key(s, i)], "status") = job.answer.status

\* C22: once the handler has stored status "done" or "error" for an item, no
\* step of a client save (merge_session_from_client) puts the status
\* "processing" back on the stored item
C22_JobStatusNotLost ==
    [][\A s \in SessionIds, i \in ItemIds :
          (JobStored(s, i) /\ client.pc \in MergePcs /\ client' # client
               /\ redis'[item_key(s, i)] # Nil)
          => Get(redis'[item_key(s, i)], "status") # "processing"]_vars

\* C23: the watchdog writes only over an item that is stored, at the moment
\* of the write, as "processing": it never overwrites with "error" /
\* "Processing timed out" an item that a handler has stored as "done"
C23_WatchdogNeverOverwritesDone ==
    [][(dog.pc = "dog_set" /\ dog' # dog /\ redis[dog.key] # Nil)
          => Get(redis[dog.key], "status") # "done"]_vars

\* the item the handler was asked to process, as it is stored after the step
StoredItemNext == redis'[item_key(job'.session_id, job'.item_id)]

\* the session is stored, lists the item, and the item is stored
ItemExists(r, s, i) ==
    /\ r[session_key(s)] # Nil
    /\ i \in Range(r[session_key(s)].items)
    /\ r[item_key(s, i)] # Nil

\* C24: for a session and an item that exist (before and after the step): a
\* submit handler stores the item as "processing" before the heavy work
\* starts; at the moment it answers 200 "done" the stored item is "done" and
\* carries the computed fingerprints; at the moment it answers 500 "error"
\* the stored item is "error" with an errorMessage; and once the handler has
\* returned "done" or "error" the item is not left as "processing": no later
\* step of a save that found the item listed puts "processing" back
C24_AnswerMatchesStoredItem ==
    [][/\ (job.pc # "job_compute" /\ job'.pc = "job_compute")
            => /\ StoredItemNext # Nil
               /\ Get(StoredItemNext, "status") = "processing"
       /\ (/\ job.pc # "returned" /\ job'.pc = "returned"
           /\ job'.answer.status = "done"
           /\ ItemExists(redis, job'.session_id, job'.item_id)
           /\ ItemExists(redis', job'.session_id, job'.item_id))
            => /\ job'.answer.code = 200
               /\ Get(StoredItemNext, "status") = "done"
               /\ Get(StoredItemNext, "fingerprints") = "computed"
       /\ (/\ job.pc # "returned" /\ job'.pc = "returned"
           /\ job'.answer.status = "error"
           /\ ItemExists(redis, job'.session_id, job'.item_id)
           /\ ItemExists(redis', job'.session_id, job'.item_id))
            => /\ job'.answer.code = 500
               /\ Get(StoredItemNext, "status") = "error"
               /\ Get(StoredItemNext, "errorMessage") # "None"
       /\ (/\ job.pc = "returned" /\ job' = job
           /\ job.answer.status \in {"done", "error"}
           /\ client.pc \in MergePcs /\ client' # client
           /\ job.item_id \in Range(client.old_meta.items)
           /\ ItemExists(redis, job.session_id, job.item_id)
           /\ ItemExists(redis', job.session_id, job.item_id)
           /\ Get(redis[item_key(job.session_id, job.item_id)], "status") # "processing")
            => Get(StoredItemNext, "status") # "processing"
      ]_vars

(***************************************************************************)
(* The store with a maintenance loop that keeps running and a clock that   *)
(* keeps advancing (SpecStoreFair): maintenance.py:17-28 starts the next   *)
(* run of the watchdog after every sleep, whatever the handlers do.        *)
(***************************************************************************)
SpecStoreFair == SpecStore /\ WF_vars(DogStep) /\ WF_vars(Tick)

\* the item is stored as "processing" with an updatedAt that the clock of
\* the model can leave more than JOB_TIMEOUT_SECONDS behind
ProcessingWithinHorizon(s, i) ==
    /\ redis[item_key(s, i)] # Nil
    /\ Get(redis[item_key(s, i)], "status") = "processing"
    /\ UpdatedAt(redis[item_key(s, i)]) + max_age_ms < MaxClock * 1000

\* the item is stored as "done" or "error", or it is no longer stored, or the
\* client has replaced it by an item without a status
Settled(s, i) ==
    \/ redis[item_key(s, i)] = Nil
    \/ Get(redis[item_key(s, i)], "status") \in {"done", "error", "None"}

\* a later submission has stamped the item beyond the clock of the model
Restamped(s, i) ==
    /\ redis[item_key(s, i)] # Nil
    /\ UpdatedAt(redis[item_key(s, i)]) + max_age_ms >= MaxClock * 1000

\* C25: while the maintenance loop keeps running and time advances, every
\* item stored as "processing" is eventually stored as "done" or "error" (or
\* removed, or submitted again), even if the handler that stored
\* "processing" never takes another step
C25_ProcessingEventuallySettled ==
    \A s \in SessionIds, i \in ItemIds :
        ProcessingWithinHorizon(s, i) ~> (Settled(s, i) \/ Restamped(s, i))

\* the watchdog has turned an item into "error" while the handler that
\* stored "processing" is still at its heavy work
C25_Witness ==
    /\ job.pc = "job_compute"
    /\ redis[item_key(job.session_id, job.item_id)] # Nil
    /\ Get(redis[item_key(job.session_id, job.item_id)], "errorMessage")
           = "Processing timed out"

\* no call of the store is under way
StoreAtRest == ~ClientBusy /\ ~JobBusy /\ ~DogBusy

\* C26: once every call of the store has run to its end, every stored item
\* blob belongs to a stored session whose metadata lists the item's id
C26_NoOrphanItems ==
    StoreAtRest =>
        \A s \in SessionIds, i \in ItemIds :
            redis[item_key(s, i)] # Nil =>
                /\ redis[session_key(s)] # Nil
                /\ i \in Range(redis[session_key(s)].items)

(***************************************************************************)
(* The in-memory sessions with a scheduler that keeps running              *)
(* clear_sessions and a clock that keeps advancing (SpecMemoryFair):       *)
(* app.py:62-71 schedules clear_sessions once a day.                       *)
(***************************************************************************)
SpecMemoryFair == SpecMemory /\ WF_vars(ClearSessions) /\ WF_vars(TickDay)

\* the time of creation in seconds: a "created" beyond the clock of the model
\* is a time in milliseconds
CreatedSeconds(session) ==
    IF session.created > MaxDays * DaySeconds THEN session.created \div 1000
    ELSE session.created

AtLeastSevenDaysOld(s) ==
    /\ s \in DOMAIN SESSIONS
    /\ clock - CreatedSeconds(SESSIONS[s]) >= SevenDays

\* C27 (removal): while clear_sessions keeps running, a session that is at
\* least seven days old is eventually removed
C27_OldSessionsRemoved ==
    \A s \in SessionIds : AtLeastSevenDaysOld(s) ~> ~AtLeastSevenDaysOld(s)

\* C27 (no early removal): a step that leaves the clock alone and removes a
\* session without deleting it removes a session at least seven days old
C27_YoungSessionsKept ==
    [][\A s \in DOMAIN SESSIONS :
          (SESSIONS' = clear_sessions(SESSIONS) /\ s \notin DOMAIN SESSIONS')
              => AtLeastSevenDaysOld(s)]_vars

(***************************************************************************)
(* execute_named_query up to the rendered statement, query.py:235-310,     *)
(* with the registry of query_registry.py:28-210.  A JSON string that the  *)
(* code inspects character by character is a sequence of characters; a     *)
(* JSON value whose type matters is [int |-> n], [str |-> s] or            *)
(* [null |-> TRUE]; a key the client leaves out is absent from the object. *)
(***************************************************************************)
MAX_OFFSET == 50000

\* query_registry.py: allowed_order_cols
allowed_order_cols(name) ==
    CASE name = "binned_coverage" -> {"bin_id", "bin_start", "bin_end", "count"}
      [] name = "fingerprint_source_counts" -> {"source", "count_per_source"}
      [] name = "search_compound_by_name" -> {"name", "smiles"}
      [] name = "cross_modal_retrieval" -> {"identifier", "name", "source", "ext_id", "score"}
      [] name \in {"annotation_counts_full", "annotation_counts_subset"} ->
             {"scheme", "key", "value", "annotation_count", "n_compounds",
              "n_genbank_regions"}
      [] OTHER -> {}

\* query_registry.py: default_order_col
default_order_col(name) ==
    CASE name = "binned_coverage" -> "bin_start"
      [] name = "fingerprint_source_counts" -> "count_per_source"
      [] name = "search_compound_by_name" -> "name"
      [] name = "cross_modal_retrieval" -> "score"
      [] name \in {"annotation_counts_full", "annotation_counts_subset"} -> "annotation_count"
      [] OTHER -> ""

\* query_registry.py: default_order_dir
default_order_dir(name) ==
    IF name \in {"fingerprint_source_counts", "cross_modal_retrieval",
                 "annotation_counts_full", "annotation_counts_subset"}
    THEN <<"D", "E", "S", "C">>
    ELSE <<"A", "S", "C">>

\* query_registry.py: required, each parameter with its type
required(name) ==
    CASE name = "search_compound_by_name" -> [q |-> "str"]
      [] name = "cross_modal_retrieval" -> [fingerprint512 |-> "str", querySettings |-> "dict"]
      [] name = "compound_info_by_id" -> [compound_id |-> "int"]
      [] name = "annotation_counts_subset" ->
             [compound_ids |-> "list", genbank_region_ids |-> "list"]
      [] name = "retrieve_items_by_fingerprint_ids" -> [rf_ids |-> "list"]
      [] OTHER -> <<>>

\* query.py:212-232; a parameter value is "good" or "bad" for its type, and
\* only float() and int() can fail
coerce_params(spec, data) ==
    IF \E k \in DOMAIN spec : k \notin DOMAIN data THEN "Missing param"
    ELSE IF \E k \in DOMAIN spec : spec[k] \in {"int", "float"} /\ data[k] = "bad"
    THEN "Invalid type"
    ELSE "None"

\* query_registry.py:9-26: hex_to_bits or .get raises on a bad value
PreprocessRaises(name, data) ==
    /\ name = "cross_modal_retrieval"
    /\ \E k \in DOMAIN data : data[k] = "bad"

\* str(v), query.py:300
Str(v) == IF "null" \in DOMAIN v THEN <<"N", "o", "n", "e">> ELSE v.str

\* str.upper() of one character
Upper(ch) ==
    CASE ch = "a" -> "A" [] ch = "c" -> "C" [] ch = "d" -> "D" [] ch = "e" -> "E"
      [] ch = "n" -> "N" [] ch = "o" -> "O" [] ch = "s" -> "S" [] OTHER -> ch

\* query.py:299-300
OrderDir(name, order) ==
    LET order_dir == IF "dir" \in DOMAIN order THEN Str(order.dir)
                     ELSE default_order_dir(name)
        upper == [k \in 1..Len(order_dir) |-> Upper(order_dir[k])]
    IN  IF Len(upper) > 0 /\ upper[1] = "D" THEN "DESC" ELSE "ASC"

OrderColUnchecked(name, order) ==
    LET sent == Get(order, "column")
    IN  IF sent = "None" \/ sent = "" THEN default_order_col(name) ELSE sent

\* query.py:295-298
OrderCol(name, order) ==
    LET sent == Get(order, "column")
        order_col == IF sent = "None" \/ sent = "" THEN default_order_col(name) ELSE sent
    IN  IF order_col \notin allowed_order_cols(name) THEN default_order_col(name)
        ELSE order_col

\* int(v), query.py:288-289: a decimal digit or an int; anything else raises
IntRaises(v) == "int" \notin DOMAIN v /\ ~("str" \in DOMAIN v /\ v.str \in {"0", "7"})
Int_(v) == IF "int" \in DOMAIN v THEN v.int ELSE IF v.str = "7" THEN 7 ELSE 0

\* query.py:288-290
Offset(paging) ==
    LET offset == IF "offset" \in DOMAIN paging THEN Int_(paging.offset) ELSE 0
    IN  Max2(0, Min2(MAX_OFFSET, offset))

Limit(paging) == IF "limit" \in DOMAIN paging THEN Int_(paging.limit) ELSE DEFAULT_LIMIT

\* the call as it ends before the database is asked: what it raised, or what
\* it rendered, and the connections psycopg.connect has opened (query.py:306)
execute_named_query(name, params, paging, order) ==
    LET call == [name |-> name, params |-> params, paging |-> paging, order |-> order]
        Raise(error) == call @@ [raised |-> error, connections |-> 0]
    IN  IF name = "None" \/ name = "" \/ name \notin QUERIES
        THEN Raise("ValueError")
        ELSE IF coerce_params(required(name), params) # "None" THEN Raise("ValueError")
        ELSE IF PreprocessRaises(name, params) THEN Raise("ValueError")
        ELSE IF \E k \in DOMAIN paging : IntRaises(paging[k])
        THEN Raise(IF \E k \in DOMAIN paging : "null" \in DOMAIN paging[k]
                   THEN "TypeError" ELSE "ValueError")
        ELSE call @@ [raised |-> "None", connections |-> 1,
                      order_col |-> OrderCol(name, order),
                      order_dir |-> OrderDir(name, order),
                      limit |-> Limit(paging), offset |-> Offset(paging)]

\* what the client of /api/query sends
NamesSent == QUERIES \cup {"no_such_query", "", "None"}
ParamValues(name) ==
    {<<>>} \cup {[k \in DOMAIN required(name) |-> v] : v \in {"good", "bad"}}
ColumnValues == {"", "name", "score", "annotation_count", "bin_end", "name; DROP TABLE x"}
DirValues ==
    {[str |-> <<"a", "s", "c">>], [str |-> <<"d", "e", "s", "c">>],
     [str |-> <<"D", "E", "S", "C">>], [str |-> <<"d", ";", "-">>], [str |-> <<>>],
     [str |-> <<";", "d">>], [null |-> TRUE]}
Orders ==
    {<<>>} \cup {[column |-> c] : c \in ColumnValues} \cup {[dir |-> d] : d \in DirValues}
        \cup {[column |-> c, dir |-> d] : c \in ColumnValues, d \in DirValues}
OffsetValues ==
    {[int |-> 0 - 1], [int |-> 0], [int |-> 1], [int |-> MAX_OFFSET],
     [int |-> MAX_OFFSET + 1], [str |-> "7"], [str |-> "x"], [null |-> TRUE]}
Pagings ==
    {<<>>, [limit |-> [int |-> 10]]} \cup {[offset |-> o] : o \in OffsetValues}

\* query.py:235-310
ExecuteNamedQuery ==
    /\ rendered = <<>>
    /\ \E name \in NamesSent, paging \in Pagings, order \in Orders :
          \E params \in ParamValues(name) :
              rendered' = execute_named_query(name, params, paging, order)
    /\ UNCHANGED <<enrichment_vars, redis, clock, client, job, dog, SESSIONS, codec,
                   bh_rounding>>

\* query.py:346-366: run_query answers the client and the call is over
RunQueryAnswers ==
    /\ rendered # <<>>
    /\ rendered' = <<>>
    /\ UNCHANGED <<enrichment_vars, redis, clock, client, job, dog, SESSIONS, codec,
                   bh_rounding>>

(***************************************************************************)
(* Calls of execute_named_query (SpecQuery).                               *)
(***************************************************************************)
InitQuery ==
    /\ pc = "query"
    /\ Idle
    /\ enrichment_candidates = <<>>
    /\ items = <<>>
    /\ table = NoTable
    /\ p_value = NoValue

NextExecute == ExecuteNamedQuery \/ RunQueryAnswers

SpecQuery == InitQuery /\ [][NextExecute]_vars

\* C28: a call that renders a statement renders an ORDER BY column that the
\* query allows or that is its default, the direction ASC or DESC and an
\* offset in 0..MAX_OFFSET; a call with an unknown or missing name raises
\* ValueError with no database connection opened
C28_RenderedOrderAndOffsetWhitelisted ==
    rendered # <<>> =>
        /\ rendered.raised = "None" =>
              /\ rendered.name \in QUERIES
              /\ rendered.order_col \in
                     allowed_order_cols(rendered.name) \cup {default_order_col(rendered.name)}
              /\ rendered.order_dir \in {"ASC", "DESC"}
              /\ rendered.offset \in 0..MAX_OFFSET
        /\ rendered.name \notin QUERIES =>
              /\ rendered.raised = "ValueError"
              /\ rendered.connections = 0

\* a statement was rendered for a call that asked for a column outside the
\* query's list, a direction that only starts like DESC and an offset beyond
\* MAX_OFFSET
C28_Witness ==
    /\ rendered # <<>>
    /\ rendered.raised = "None"
    /\ Get(rendered.order, "column") = "name; DROP TABLE x"
    /\ "dir" \in DOMAIN rendered.order
    /\ rendered.order.dir = [str |-> <<"d", ";", "-">>]
    /\ rendered.order_dir = "DESC"
    /\ rendered.order_col = default_order_col(rendered.name)

(***************************************************************************)
(* The fingerprint codec, helpers.py:18-52, at a width of HexChars         *)
(* hexadecimal characters for 4 * HexChars bits (the code: 128 and 512).   *)
(* A string is a sequence of characters, an array a sequence of 0 and 1.   *)
(***************************************************************************)
HexChars == 2
BitCount == 4 * HexChars

LowerHex == <<"0", "1", "2", "3", "4", "5", "6", "7", "8", "9", "a", "b", "c", "d", "e", "f">>
UpperHex == <<"0", "1", "2", "3", "4", "5", "6", "7", "8", "9", "A", "B", "C", "D", "E", "F">>
HexDigitChars == {LowerHex[k] : k \in 1..16} \cup {UpperHex[k] : k \in 1..16}

\* the value int(ch, 16) gives one character
HexValue(ch) == CHOOSE v \in 0..15 : LowerHex[v + 1] = ch \/ UpperHex[v + 1] = ch

\* int(s, base) of a string of digit values, most significant first
RECURSIVE ToInt(_, _)
ToInt(digits, base) ==
    IF digits = <<>> THEN 0
    ELSE ToInt(SubSeq(digits, 1, Len(digits) - 1), base) * base + digits[Len(digits)]

\* the digits of hex(n)[2:] and bin(n)[2:]: no leading zero, one digit for 0
RECURSIVE Digits(_, _)
Digits(n, base) ==
    IF n < base THEN <<n>> ELSE Digits(n \div base, base) \o <<n % base>>

nofill(s, width, zero) == s

\* str.zfill(width): zeros on the left up to width, nothing is cut off
RECURSIVE zfill(_, _, _)
zfill(s, width, zero) == IF Len(s) >= width THEN s ELSE zfill(<<zero>> \o s, width, zero)

\* what a conversion gives: the value it returns, or the error it raises
Returns(value) == [raised |-> "None", value |-> value]
Raises(error) == [raised |-> error, value |-> <<>>]

\* helpers.py:28-35
bits_to_hex(bits) ==
    IF Len(bits) # BitCount THEN Raises("ValueError")
    ELSE LET hexstr == Digits(ToInt(bits, 2), 16)
         IN  Returns(zfill([k \in 1..Len(hexstr) |-> LowerHex[hexstr[k] + 1]],
                           HexChars, "0"))

\* helpers.py:47-52
hex_to_bits(hexstr) ==
    IF Len(hexstr) # HexChars THEN Raises("ValueError")
    ELSE IF \E k \in 1..Len(hexstr) : hexstr[k] \notin HexDigitChars
    THEN Raises("ValueError")
    ELSE LET bit_int == ToInt([k \in 1..Len(hexstr) |-> HexValue(hexstr[k])], 16)
         IN  Returns(zfill(Digits(bit_int, 2), BitCount, 0))

\* arrays of BitCount elements, and one that is too short
RECURSIVE SeqsOf(_, _)
SeqsOf(S, n) ==
    IF n = 0 THEN {<<>>} ELSE {<<x>> \o s : x \in S, s \in SeqsOf(S, n - 1)}

BitArrays == SeqsOf({0, 1}, BitCount) \cup SeqsOf({0, 1}, BitCount - 1)

\* strings of HexChars characters from a client, and shorter ones
CharsSent == {LowerHex[k] : k \in 1..16} \cup {"A", "F", "g"}
HexStrings == SeqsOf(CharsSent, HexChars) \cup SeqsOf({"0", "f"}, HexChars - 1)

IsLowerHex(s) ==
    /\ s \in Seq({LowerHex[k] : k \in 1..16})
    /\ Len(s) = HexChars

\* helpers.py:18-35: an array is encoded
BitsToHex ==
    /\ codec = <<>>
    /\ \E bits \in BitArrays :
          codec' = [first |-> "bits_to_hex", bits |-> bits, hex |-> bits_to_hex(bits).value,
                    raised |-> bits_to_hex(bits).raised]
    /\ UNCHANGED <<enrichment_vars, redis, clock, client, job, dog, SESSIONS, rendered,
                   bh_rounding>>

\* helpers.py:38-52: a string is decoded
HexToBits ==
    /\ codec = <<>>
    /\ \E hexstr \in HexStrings :
          codec' = [first |-> "hex_to_bits", hex |-> hexstr,
                    bits |-> hex_to_bits(hexstr).value,
                    raised |-> hex_to_bits(hexstr).raised]
    /\ UNCHANGED <<enrichment_vars, redis, clock, client, job, dog, SESSIONS, rendered,
                   bh_rounding>>

\* what was encoded is decoded again
DecodeEncoded ==
    /\ codec # <<>>
    /\ codec.first = "bits_to_hex"
    /\ codec.raised = "None"
    /\ "back" \notin DOMAIN codec
    /\ codec' = [codec EXCEPT !.raised = hex_to_bits(codec.hex).raised]
                    @@ [back |-> hex_to_bits(codec.hex).value]
    /\ UNCHANGED <<enrichment_vars, redis, clock, client, job, dog, SESSIONS, rendered,
                   bh_rounding>>

\* what was decoded is encoded again
EncodeDecoded ==
    /\ codec # <<>>
    /\ codec.first = "hex_to_bits"
    /\ codec.raised = "None"
    /\ "back" \notin DOMAIN codec
    /\ codec' = [codec EXCEPT !.raised = bits_to_hex(codec.bits).raised]
                    @@ [back |-> bits_to_hex(codec.bits).value]
    /\ UNCHANGED <<enrichment_vars, redis, clock, client, job, dog, SESSIONS, rendered,
                   bh_rounding>>

\* the values are dropped
CodecReturns ==
    /\ codec # <<>>
    /\ codec' = <<>>
    /\ UNCHANGED <<enrichment_vars, redis, clock, client, job, dog, SESSIONS, rendered,
                   bh_rounding>>

(***************************************************************************)
(* Encoding and decoding fingerprints (SpecCodec).                         *)
(***************************************************************************)
InitCodec ==
    /\ pc = "codec"
    /\ Idle
    /\ enrichment_candidates = <<>>
    /\ items = <<>>
    /\ table = NoTable
    /\ p_value = NoValue

NextCodec == BitsToHex \/ HexToBits \/ DecodeEncoded \/ EncodeDecoded \/ CodecReturns

SpecCodec == InitCodec /\ [][NextCodec]_vars

\* C29: an array of BitCount bits is encoded as exactly HexChars hexadecimal
\* characters and decoding them gives the array back; a string of HexChars
\* lowercase hexadecimal characters is decoded and encoding the result gives
\* the string back
C29_CodecRoundTrip ==
    codec # <<>> =>
        /\ (codec.first = "bits_to_hex" /\ Len(codec.bits) = BitCount) =>
              /\ codec.raised = "None"
              /\ Len(codec.hex) = HexChars
              /\ \A k \in 1..Len(codec.hex) : codec.hex[k] \in HexDigitChars
              /\ "back" \in DOMAIN codec => codec.back = codec.bits
        /\ (codec.first = "hex_to_bits" /\ IsLowerHex(codec.hex)) =>
              /\ codec.raised = "None"
              /\ "back" \in DOMAIN codec => codec.back = codec.hex

\* an array with leading zero bits went through both conversions
C29_Witness ==
    /\ codec # <<>>
    /\ codec.first = "bits_to_hex"
    /\ Len(codec.bits) = BitCount
    /\ \A k \in 1..(BitCount - 1) : codec.bits[k] = 0
    /\ codec.bits[BitCount] = 1
    /\ "back" \in DOMAIN codec

(***************************************************************************)
(* The correction in floats, views.py:339-361.  A float is the exact value *)
(* of the operations that produced it together with where the float lies   *)
(* relative to that value: "nearest" where every operation is exact,       *)
(* "below" or "above" where one of them rounds.  A raw p-value is a float; *)
(* a fraction whose denominator is no power of two stands for the float    *)
(* next to it.                                                             *)
(***************************************************************************)
RECURSIVE IsPow2(_)
IsPow2(n) == n = 1 \/ (n > 1 /\ n % 2 = 0 /\ IsPow2(n \div 2))

\* the value has a short binary expansion: a float holds it exactly
IsDyadic(p) == IsPow2(p[2])

\* (raw_p * candidate_count) / rank rounds nowhere, views.py:356: zero, a
\* product and a quotient by powers of two, or short binary values throughout
AdjustmentIsExact(raw_p, candidate_count, rank) ==
    \/ raw_p = RZero
    \/ IsPow2(candidate_count) /\ IsPow2(rank)
    \/ IsDyadic(raw_p) /\ IsDyadic(RScale(raw_p, candidate_count, rank))

Float(p, rounding) == [p |-> p, rounding |-> rounding]
RoundingRank(rounding) ==
    CASE rounding = "below" -> 0 [] rounding = "nearest" -> 1 [] OTHER -> 2

\* x < y on floats
FloatLess(x, y) ==
    \/ RLess(x.p, y.p)
    \/ x.p = y.p /\ RoundingRank(x.rounding) < RoundingRank(y.rounding)

\* where the float of each rank's adjustment may lie, for one platform
BHRoundings(cands) ==
    LET order == sorted_indices(cands)
    IN  {r \in [1..Len(cands) -> {"below", "nearest", "above"}] :
            \A rank \in 1..Len(cands) :
                AdjustmentIsExact(cands[order[rank]].p_value, Len(cands), rank)
                    => r[rank] = "nearest"}

\* views.py:357-358
FloatRunningMinDropped(cumulative_min, adjusted) == adjusted
FloatRunningMin(cumulative_min, adjusted) ==
    IF FloatLess(adjusted, cumulative_min) THEN adjusted ELSE cumulative_min

\* the loop views.py:352-359 in floats
RECURSIVE BHScanFloat(_, _, _, _, _, _)
BHScanFloat(cands, order, rank, cumulative_min, adjusted_values, rounding) ==
    IF rank = 0 THEN adjusted_values
    ELSE LET candidate_idx == order[rank]
             raw_p == cands[candidate_idx].p_value
             adjusted == Float(RawAdjustment(raw_p, Len(cands), rank), rounding[rank])
             cmin == FloatRunningMin(cumulative_min, adjusted)
         IN  BHScanFloat(cands, order, rank - 1, cmin,
                         [adjusted_values EXCEPT
                             ![candidate_idx] = IF FloatLess(cmin, Float(ROne, "nearest"))
                                                THEN cmin ELSE Float(ROne, "nearest")],
                         rounding)

\* adjusted_values in floats, views.py:341-359
BenjaminiHochbergFloat(cands, rounding) ==
    IF Len(cands) = 0 THEN <<>>
    ELSE BHScanFloat(cands, sorted_indices(cands), Len(cands), Float(ROne, "nearest"),
                     [i \in 1..Len(cands) |-> Float(ROne, "nearest")], rounding)

\* views.py:360-361
CorrectedFloat(cands, rounding) ==
    [i \in 1..Len(cands) |->
        [key |-> cands[i].key,
         subset_count |-> cands[i].subset_count,
         background_count |-> cands[i].background_count,
         p_value |-> cands[i].p_value,
         adjusted_p_value |-> BenjaminiHochbergFloat(cands, rounding)[i]]]

\* items, views.py:366-381, sorted on the floats
RankItemsFloat(cands) ==
    LET entry(i) == [key |-> cands[i].key, p_value |-> cands[i].p_value,
                     adjusted_p_value |-> cands[i].adjusted_p_value]
        order == StableOrder([i \in 1..Len(cands) |->
                                 <<cands[i].adjusted_p_value.p,
                                   <<RoundingRank(cands[i].adjusted_p_value.rounding), 1>>,
                                   cands[i].p_value>>],
                             Len(cands))
    IN  [k \in 1..Len(cands) |-> entry(order[k])]

\* raw p-values such as 0.1, 0.2, 0.7, which no float holds exactly
TenthsCandidates ==
    {[i \in 1..3 |-> [key |-> CandKeys[i], subset_count |-> 1, background_count |-> 1,
                      p_value |-> Frac(ps[i], 10)]] :
        ps \in {<<1, 2, 7>>, <<7, 1, 7>>, <<7, 2, 1>>, <<3, 3, 3>>}}

InitBHFloat ==
    /\ Idle
    /\ pc = "correct_float"
    /\ enrichment_candidates \in UNION {RawCandidates(m) : m \in 0..MaxCands}
                                 \cup TenthsCandidates
    /\ items = <<>>
    /\ table = NoTable
    /\ p_value = NoValue

CorrectFloat ==
    /\ pc = "correct_float"
    /\ \E rounding \in BHRoundings(enrichment_candidates) :
          /\ bh_rounding' = rounding
          /\ enrichment_candidates' = CorrectedFloat(enrichment_candidates, rounding)
          /\ items' = RankItemsFloat(CorrectedFloat(enrichment_candidates, rounding))
    /\ pc' = "ranked_float"
    /\ UNCHANGED <<redis, clock, client, job, dog, SESSIONS, rendered, codec,
                   float_results, fingerprint, queries, result, item_rows, compound_ids,
                   genbank_region_ids, subset_total_targets, full_rows, subset_rows,
                   background_total_targets, fisher_calls, response, table, p_value>>

NextBHFloat == CorrectFloat

(***************************************************************************)
(* The correction in floats run on every list of at most MaxCands          *)
(* candidates with raw p-values k / PDen and on lists of tenths            *)
(* (SpecBHFloat).                                                          *)
(***************************************************************************)
SpecBHFloat == InitBHFloat /\ [][NextBHFloat]_vars

\* candidates with equal raw p-values have equal adjusted p-values
TiesAdjustedEqually ==
    \A i, j \in 1..Len(enrichment_candidates) :
        enrichment_candidates[i].p_value = enrichment_candidates[j].p_value
            => enrichment_candidates[i].adjusted_p_value
                   = enrichment_candidates[j].adjusted_p_value

Reorderings(m) == {f \in [1..m -> 1..m] : \A i, j \in 1..m : f[i] = f[j] => i = j}

\* the correction of the list in any other order gives every candidate the
\* adjusted p-value it has
OrderOfListIrrelevant ==
    \A f \in Reorderings(Len(enrichment_candidates)) :
        LET permuted == [i \in 1..Len(enrichment_candidates) |-> enrichment_candidates[f[i]]]
        IN  \A i \in 1..Len(enrichment_candidates) :
                BenjaminiHochbergFloat(permuted, bh_rounding)[i]
                    = enrichment_candidates[f[i]].adjusted_p_value

\* the candidate's raw p-value is the largest of the list
LargestRaw(i) ==
    \A j \in 1..Len(enrichment_candidates) :
        RLeq(enrichment_candidates[j].p_value, enrichment_candidates[i].p_value)

\* C30 as stated: equal raw p-values get equal adjusted p-values, the order
\* of the list does not matter, and every adjusted p-value (a float) is
\* greater than or equal to its raw p-value
C30_AsStated ==
    pc = "ranked_float" =>
        /\ TiesAdjustedEqually
        /\ OrderOfListIrrelevant
        /\ \A i \in 1..Len(enrichment_candidates) :
               ~FloatLess(enrichment_candidates[i].adjusted_p_value,
                          Float(enrichment_candidates[i].p_value, "nearest"))

\* C30: equal raw p-values get equal adjusted p-values, the order of the list
\* does not matter, and every adjusted p-value is greater than or equal to its
\* raw p-value in exact arithmetic; the float is smaller than the raw p-value
\* only by rounding, for a candidate with the largest raw p-value in a list
\* whose length is no power of two
C30_BHOrderIndependent ==
    pc = "ranked_float" =>
        /\ TiesAdjustedEqually
        /\ OrderOfListIrrelevant
        /\ \A i \in 1..Len(enrichment_candidates) :
               /\ RLeq(enrichment_candidates[i].p_value,
                       enrichment_candidates[i].adjusted_p_value.p)
               /\ FloatLess(enrichment_candidates[i].adjusted_p_value,
                            Float(enrichment_candidates[i].p_value, "nearest"))
                      => /\ LargestRaw(i)
                         /\ ~IsPow2(Len(enrichment_candidates))

\* a list with two equal raw p-values and a third one was corrected, with a
\* product or quotient that rounded
C30_Witness ==
    /\ pc = "ranked_float"
    /\ Len(enrichment_candidates) = 3
    /\ enrichment_candidates[1].p_value = enrichment_candidates[3].p_value
    /\ enrichment_candidates[1].p_value # enrichment_candidates[2].p_value
    /\ \E rank \in 1..3 : bh_rounding[rank] # "nearest"

====
